---- MODULE Spec2Model ----
(***************************************************************************)
(* Model of calculate_runway (src/src/otto/tools/analytics/runway.py).     *)
(*                                                                         *)
(* Money.  Input amounts are whole cents.  The code divides each window    *)
(* total by 3.0, so every monetary local (current_cash, monthly_burn,      *)
(* cash, capex_by_month values, total_outflow) is held here in THIRDS of a *)
(* cent: the arithmetic of the code is then exact integer arithmetic.      *)
(* round(x, 2) converts thirds of a cent back to (the nearest) whole       *)
(* cents, so every field of the returned record is in cents.  Binary       *)
(* floating-point rounding error is not modelled.                          *)
(*                                                                         *)
(* Dates.  A Timestamp is a triple <<year, month, day>>; a 'YYYY-MM' label *)
(* is a pair <<year, month>>, ordered as the zero-padded strings are.  A   *)
(* date cell of a table is [repr, date]: repr = "str" for a string cell    *)
(* (column dtype object), "ts" for a datetime64 cell.                      *)
(***************************************************************************)
EXTENDS Integers, Sequences, FiniteSets, TLC

\* ---------------------------------------------------------------- bounds
\* Largest number of rows of the generated GL and CapEx tables.
MaxRows == 2

\* ------------------------------------------------------ program constants
\* The divisor of every window total (runway.py: "/ 3.0"); also the number
\* of thirds of a cent in a cent.
Scale == 3

\* relativedelta(months=3): the length of the trailing window.
WindowMonths == 3

\* A horizon one month short.
MaxMonthsShort == 60 - 1

\* A horizon one month long.
MaxMonthsLong == 60 + 1

\* range(60): the projection horizon.
MaxMonths == 60

\* ------------------------------------------------------------- calendar
IsLeap(y) == (y % 4 = 0 /\ y % 100 # 0) \/ y % 400 = 0

\* A calendar of 27-day months.
DaysInMonthShort(y, m) == 27

DaysInMonth(y, m) ==
    IF m = 2 THEN (IF IsLeap(y) THEN 29 ELSE 28)
    ELSE IF m \in {4, 6, 9, 11} THEN 30 ELSE 31

Min(a, b) == IF a <= b THEN a ELSE b
Max(a, b) == IF a >= b THEN a ELSE b

\* A month shift that wraps the month but forgets to carry into the year.
AddMonthsNoCarry(dt, n) ==
    LET m == ((dt[2] - 1 + n) % 12) + 1
    IN  <<dt[1], m, Min(dt[3], DaysInMonth(dt[1], m))>>

\* dt + relativedelta(months=n), n of either sign: the month moves by n, the
\* year carries, and the day is clamped to the length of the target month.
AddMonths(dt, n) ==
    LET idx == dt[1] * 12 + (dt[2] - 1) + n
        y   == idx \div 12
        m   == (idx % 12) + 1
    IN  <<y, m, Min(dt[3], DaysInMonth(y, m))>>

\* dt.replace(day=1)
ReplaceDay1(dt) == <<dt[1], dt[2], 1>>

\* A day shift that moves every date one calendar month back.
AddDaysBackwards(dt, n) == AddMonths(dt, 0 - 1)

\* A day shift that counts each 30 days as one calendar month.
AddDaysAsMonths(dt, n) == AddMonths(dt, n \div 30)

\* dt + timedelta(days=n), n >= 0, over real month lengths.
RECURSIVE AddDays(_, _)
AddDays(dt, n) ==
    LET left == DaysInMonth(dt[1], dt[2]) - dt[3]
    IN  IF n <= left THEN <<dt[1], dt[2], dt[3] + n>>
        ELSE AddDays(IF dt[2] = 12 THEN <<dt[1] + 1, 1, 1>>
                                   ELSE <<dt[1], dt[2] + 1, 1>>,
                     n - left - 1)

\* dt.strftime('%Y-%m'): the day is dropped.
Strftime(dt) == <<dt[1], dt[2]>>

\* pd.to_datetime(label + '-01')
FirstOfMonth(label) == <<label[1], label[2], 1>>

\* a <= b on zero-padded 'YYYY-MM' strings (lexicographic).
StrLE(a, b) == a[1] < b[1] \/ (a[1] = b[1] /\ a[2] <= b[2])

\* a <= b on Timestamps.
TsLE(a, b) ==
    \/ a[1] < b[1]
    \/ a[1] = b[1] /\ a[2] < b[2]
    \/ a[1] = b[1] /\ a[2] = b[2] /\ a[3] <= b[3]

\* ---------------------------------------------------------------- tables
\* A table of the mapping is [present, rows]; a table that is absent from
\* the mapping has present = FALSE.  Rows are records of named columns.
MissingTable == [present |-> FALSE, rows |-> <<>>]
Table(rows) == [present |-> TRUE, rows |-> rows]

\* dfs.get(name, pd.DataFrame()): the rows of the table, none when absent.
Get(d, name) == IF d[name].present THEN d[name].rows ELSE <<>>

\* df.empty
Empty(df) == Len(df) = 0

\* df[col].dtype of a date column: object when its cells are strings.
Dtype(df, col) ==
    IF \E k \in 1..Len(df) : df[k][col].repr = "str" THEN "object"
    ELSE "datetime64[ns]"

\* pd.to_datetime(df[col]) assigned back to df[col]: every cell is parsed
\* into a Timestamp, the other columns are untouched.
ToDatetime(df, col) ==
    [k \in 1..Len(df) |->
        [df[k] EXCEPT ![col] = [repr |-> "ts", date |-> df[k][col].date]]]

RECURSIVE SumSeq(_)
SumSeq(s) == IF s = <<>> THEN 0 ELSE Head(s) + SumSeq(Tail(s))

\* df[col].sum()
ColSum(df, col) == SumSeq([k \in 1..Len(df) |-> df[k][col]])

\* df['date'].max()
MaxDate(df, col) ==
    CHOOSE t \in {df[k][col].date : k \in 1..Len(df)} :
        \A k \in 1..Len(df) : TsLE(df[k][col].date, t)

\* A selection that keeps the rows of every date.
RowsOnAnyDate(df, col, t) == df

\* df[df['date'] == latest_date]
RowsOn(df, col, t) == LET On(r) == r[col].date = t IN SelectSeq(df, On)

\* --------------------------------------------------------- burn sources
\* A window that leaves out the month of latest_date.
MonthInWindowOpenEnd(fm, from, to) ==
    StrLE(Strftime(from), fm) /\ StrLE(fm, Strftime(to)) /\ fm # Strftime(to)

\* (df['fiscal_month'] >= three_months_ago.strftime('%Y-%m')) &
\* (df['fiscal_month'] <= latest_date.strftime('%Y-%m'))
MonthInWindow(fm, from, to) ==
    StrLE(Strftime(from), fm) /\ StrLE(fm, Strftime(to))

\* dim_account_df[dim_account_df['account_type'] == 'Opex']['account_id']
OpexAccounts(dim) ==
    {dim[k].account_id : k \in {j \in 1..Len(dim) : dim[j].account_type = "Opex"}}

\* A variant that counts every GL row as Opex when dim_account has no rows.
OpexRowsUnclassified(gl, dim, from, to) ==
    LET Keep(r) == /\ MonthInWindow(r.fiscal_month, from, to)
                   /\ (Empty(dim) \/ r.account_id \in OpexAccounts(dim))
    IN  IF Empty(gl) THEN <<>> ELSE SelectSeq(gl, Keep)

\* gl_df_filtered, or no rows when the guard of line 46 fails.
OpexRows(gl, dim, from, to) ==
    LET Keep(r) == /\ MonthInWindow(r.fiscal_month, from, to)
                   /\ r.account_id \in OpexAccounts(dim)
    IN  IF ~Empty(gl) /\ ~Empty(dim) THEN SelectSeq(gl, Keep) ELSE <<>>

\* A payroll window that leaves out a run paid on three_months_ago itself.
PayrollRowsOpenStart(pay, from, to) ==
    LET Keep(r) == /\ TsLE(from, r.pay_date.date) /\ r.pay_date.date # from
                   /\ TsLE(r.pay_date.date, to)
    IN  SelectSeq(pay, Keep)

\* payroll_last_3m: pay_date compared as Timestamps, both ends included.
PayrollRows(pay, from, to) ==
    LET Keep(r) == TsLE(from, r.pay_date.date) /\ TsLE(r.pay_date.date, to)
    IN  SelectSeq(pay, Keep)

\* cloud_last_3m and marketing_last_3m
MonthlyRows(df, from, to) ==
    LET Keep(r) == MonthInWindow(r.fiscal_month, from, to)
    IN  SelectSeq(df, Keep)

\* A payroll total that counts gross pay only.
PayrollTotalGrossOnly(rows) == ColSum(rows, "gross_pay")

\* payroll_total
PayrollTotal(rows) ==
    ColSum(rows, "gross_pay") + ColSum(rows, "taxes")
        + ColSum(rows, "benefits") + ColSum(rows, "contractor_cost")

\* ---------------------------------------------------------------- CapEx
\* Lines 112-117, on the copy of the schedule: with a positive delay every
\* planned_month becomes the label of (first day of the month + delay days).
\* (The helper column planned_month_dt of the copy is not kept here.)
DelayCapex(capex, delay) ==
    IF ~Empty(capex) /\ delay > 0
    THEN [k \in 1..Len(capex) |->
            [capex[k] EXCEPT !.planned_month =
                Strftime(AddDays(FirstOfMonth(capex[k].planned_month), delay))]]
    ELSE capex

\* A delay that is applied to the schedule of the mapping itself.
ScheduleDelayedInPlace(schedule, delayed) == delayed

\* Line 110: .copy(): the delay is applied to a copy, the schedule of the
\* mapping stays as it is.
ScheduleAfterDelay(schedule, delayed) == schedule

\* A variant that overwrites the bucket instead of adding to it.
SetBucket(acc, month, amount) ==
    LET base == IF month \in DOMAIN acc THEN acc ELSE acc @@ (month :> 0)
    IN  [base EXCEPT ![month] = amount]

\* Lines 132-134: capex_by_month[month] += amount, the bucket starting at 0.
AddToBucket(acc, month, amount) ==
    LET base == IF month \in DOMAIN acc THEN acc ELSE acc @@ (month :> 0)
    IN  [base EXCEPT ![month] = @ + amount]

\* Lines 127-134: the dict month -> summed amount, row by row.
RECURSIVE CapexByMonth(_, _)
CapexByMonth(capex, acc) ==
    IF capex = <<>> THEN acc
    ELSE CapexByMonth(Tail(capex),
                      AddToBucket(acc, Head(capex).planned_month,
                                  Scale * Head(capex).planned_amount))

\* capex_by_month.get(month_str, 0.0)
CapexFor(byMonth, month) == IF month \in DOMAIN byMonth THEN byMonth[month] ELSE 0

\* ------------------------------------------------------------ projection
\* An outflow that leaves the CapEx of the month out.
TotalOutflowBurnOnly(burn, capex) == burn

\* Line 140: total_outflow = monthly_burn + capex_for_month
TotalOutflow(burn, capex) == burn + capex

\* A month count that starts at zero.
IterCountZeroBased(n) == n

\* Line 143: runway_months = i + 1
IterCount(n) == n + 1

\* A break that lets cash reach exactly zero without stopping.
DepletedStrict(c) == c < 0

\* Line 153: if cash <= 0: break
Depleted(c) == c <= 0

\* round(x, 2): thirds of a cent to the nearest cent (no third is a tie).
Round2(x) == (2 * x + Scale) \div (2 * Scale)

\* runway_months is a float: a finite count, or float('inf').
Fin(n) == [inf |-> FALSE, n |-> n]
Inf == [inf |-> TRUE, n |-> 0]

\* A zero-burn rule that counts zero cash as positive.
RunwayWithoutBurnNonNeg(cc) == IF cc >= 0 THEN Inf ELSE Fin(0)

\* A zero-burn rule that never reports an unbounded runway.
RunwayWithoutBurnZero(cc) == Fin(0)

\* Line 106: float('inf') if current_cash > 0 else 0.0
RunwayWithoutBurn(cc) == IF cc > 0 THEN Inf ELSE Fin(0)

\* An early return that reuses the unbounded runway of the zero-burn return.
EmptyResultInf ==
    [current_cash |-> 0, monthly_burn |-> 0, runway_months |-> Inf,
     projection |-> <<>>]

\* Lines 21-26: the result for an empty cash table.
EmptyResult ==
    [current_cash |-> 0, monthly_burn |-> 0, runway_months |-> Fin(0),
     projection |-> <<>>]

\* Lines 145-151: one snapshot of the projection.
Snapshot(month, c, burn, capex, outflow) ==
    [month |-> month, cash |-> Round2(c), burn |-> Round2(burn),
     capex |-> Round2(capex), total_outflow |-> Round2(outflow)]

\* ----------------------------------------------------------------- state
VARIABLES
    dfs,               \* the table mapping passed by the caller
    delay_capex_days,  \* the delay argument
    pc,                \* position in calculate_runway
    latest_date, current_cash, three_months_ago, monthly_burn,
    capex_df, capex_by_month,
    projection, cash, current_month, runway_months, i,
    result,            \* the returned record, meaningful when pc = "done"
    \* runway_tool and its database
    db,                \* the tables of the schema: table name -> rows
    args,              \* the argument dict of the invocation
    tool_pc,           \* position in runway_tool
    delay,             \* the local of runway_tool
    tool_result,       \* what runway_tool returned
    loads, calls,      \* load_all_tables / calculate_runway calls of the invocation
    invocations,       \* invocations so far
    \* generate_kpi_slide
    slide_dfs,         \* the table mapping passed by the caller
    slide_month,       \* the month argument
    slide_pc,          \* position in generate_kpi_slide
    kpi_records,       \* the joined KPI rows of the month
    kpi_done,          \* records the loop has gone through
    counts,            \* the four status counters, bound or not
    slide_result,      \* the result dict built on the way
    summary_parts,     \* the parts of summary_text
    slide_return,      \* the returned dict, or the exception raised
    \* a caller that calls calculate_runway again and again on one mapping
    history,           \* one record for each call that has returned
    driver_pc,         \* "idle" between calls, "calling" during one
    entry_tables,      \* the tables as they were when the call was entered
    version,           \* how often the caller has replaced a source table
    \* burn_by_function
    burn_dfs,          \* the table mapping passed by the caller
    burn_pc,           \* position in burn_by_function
    burn_return,       \* the returned dict
    \* variance_report
    var_dfs,           \* the table mapping passed by the caller
    fiscal_quarter,    \* the quarter argument
    budget_version,    \* the version argument
    var_pc,            \* position in variance_report
    var_return,        \* the returned dict
    \* variance_tool, cloud_marketing_tool and slides_tool
    wrap_db,           \* the tables of the schema: table name -> rows
    wrap_tool,         \* the wrapper that is invoked
    wrap_args,         \* its argument dict
    wrap_pc,           \* position in the wrapper
    wrap_dfs,          \* the local dfs of the wrapper
    wrap_calls,        \* calls of the analytics function by the invocation
    wrap_inner,        \* what the analytics function returned or raised
    wrap_return        \* what the wrapper returned or raised

runway == <<dfs, delay_capex_days, pc, latest_date, current_cash,
            three_months_ago, monthly_burn, capex_df, capex_by_month,
            projection, cash, current_month, runway_months, i, result>>

tool == <<db, args, tool_pc, delay, tool_result, loads, calls, invocations>>

slide == <<slide_dfs, slide_month, slide_pc, kpi_records, kpi_done, counts,
           slide_result, summary_parts, slide_return>>

driver == <<history, driver_pc, entry_tables, version>>

burn == <<burn_dfs, burn_pc, burn_return>>

variance == <<var_dfs, fiscal_quarter, budget_version, var_pc, var_return>>

wrapper == <<wrap_db, wrap_tool, wrap_args, wrap_pc, wrap_dfs, wrap_calls,
             wrap_inner, wrap_return>>

\* The reporting functions and their wrappers.
reports == <<burn, variance, wrapper>>

\* The layers beside calculate_runway, runway_tool and generate_kpi_slide.
extra == <<driver, reports>>

vars == <<runway, tool, slide, extra>>

locals == <<latest_date, current_cash, three_months_ago, monthly_burn,
            capex_df, capex_by_month, projection, cash, current_month,
            runway_months, i>>

\* Values of locals that are not yet assigned, and of result before a return.
NoDate == <<0, 0, 0>>
NoDict == [m \in {} |-> 0]
NoResult ==
    [current_cash |-> 0, monthly_burn |-> 0, runway_months |-> Fin(0 - 1),
     projection |-> <<>>]

\* ---------------------------------------------------------------- inputs
\* Every input is built around an anchor date, the latest cash date.
Dates == {<<2023, 1, 31>>, <<2023, 12, 15>>, <<2024, 5, 31>>}
Delays == {0, 27, 28, 90}

\* The label k months away from the month of d.
MonthAt(d, k) ==
    LET idx == d[1] * 12 + (d[2] - 1) + k
    IN  <<idx \div 12, (idx % 12) + 1>>

SeqsUpTo(S, n) == UNION {[1..k -> S] : k \in 0..n}

Cell(repr, d) == [repr |-> repr, date |-> d]
CashRow(repr, d, amt) == [date |-> Cell(repr, d), ending_cash |-> amt]

\* One bank account, two accounts on the latest day, an older balance
\* stored after the latest one, or an older balance before two accounts.
CashTables(d, reprs, amts) ==
    {Table(<<CashRow(r, d, a)>>) : r \in reprs, a \in amts}
    \cup {Table(<<CashRow(r, d, a), CashRow(r, d, 50)>>) : r \in reprs, a \in amts}
    \cup {Table(<<CashRow(r, d, a), CashRow(r, <<d[1] - 1, d[2], d[3]>>, 70)>>) :
            r \in reprs, a \in amts}
    \cup {Table(<<CashRow(r, <<d[1], d[2], d[3] - 1>>, 70), CashRow(r, d, a),
                  CashRow(r, d, 50)>>) : r \in reprs, a \in amts}

DimStandard ==
    Table(<<[account_id |-> "OPEX1", account_type |-> "Opex"],
            [account_id |-> "REV1", account_type |-> "Revenue"]>>)

GlRows(d, offsets, amts) ==
    {[fiscal_month |-> MonthAt(d, k), account_id |-> a, amount_base |-> x] :
        k \in offsets, a \in {"OPEX1", "REV1"}, x \in amts}

MonthlyTables(d, offsets, amts) ==
    {Table(<<[fiscal_month |-> MonthAt(d, k), amount |-> x]>>) :
        k \in offsets, x \in amts}

\* Pay dates on both sides of each end of the window of the anchor date.
PayDates(d) ==
    CASE d = <<2023, 1, 31>> ->
            {<<2022, 10, 30>>, <<2022, 10, 31>>, <<2023, 1, 31>>, <<2023, 2, 1>>}
      [] d = <<2023, 12, 15>> ->
            {<<2023, 9, 14>>, <<2023, 9, 15>>, <<2023, 12, 15>>, <<2023, 12, 16>>}
      [] d = <<2024, 5, 31>> ->
            {<<2024, 2, 28>>, <<2024, 2, 29>>, <<2024, 5, 31>>, <<2024, 6, 1>>}

PayrollTables(d) ==
    {Table(<<[pay_date |-> Cell(r, p), gross_pay |-> 60, taxes |-> 10,
              benefits |-> 20, contractor_cost |-> 10]>>) :
        r \in {"str", "ts"}, p \in PayDates(d)}

CapexRows(d) ==
    {[planned_month |-> MonthAt(d, k), planned_amount |-> x] :
        k \in {1, 2}, x \in {50, 5000}}

Mapping(cashT, glT, dimT, payT, cloudT, mktT, capexT) ==
    [fact_cash_balance_daily |-> cashT, fact_gl_actuals_monthly |-> glT,
     dim_account |-> dimT, fact_payroll_runs |-> payT,
     fact_it_cloud_costs |-> cloudT, fact_marketing_spend_detail |-> mktT,
     fact_capex_schedule |-> capexT]

\* Opex inputs: the cash table, the account dimension and the GL rows vary.
OpexInputs ==
    UNION {
      {Mapping(c, Table(g), dm, MissingTable, MissingTable, MissingTable, MissingTable) :
          c \in {MissingTable, Table(<<>>)} \cup CashTables(d, {"str", "ts"}, {100}),
          g \in SeqsUpTo(GlRows(d, {-4, -3, 0}, {100}), MaxRows),
          dm \in {MissingTable, Table(<<>>), DimStandard}} : d \in Dates}

\* Source inputs: payroll, cloud and marketing vary, next to a GL table that
\* is missing or has one Opex row (classified or not) and a one-row CapEx
\* schedule.
SourceInputs ==
    UNION {
      {Mapping(c, gd[1], gd[2], p, cl, mk,
               Table(<<[planned_month |-> MonthAt(d, 1), planned_amount |-> 50]>>)) :
          c \in {MissingTable} \cup {Table(<<CashRow(r, d, 100)>>) : r \in {"str", "ts"}},
          gd \in {<<MissingTable, DimStandard>>,
                  <<Table(<<[fiscal_month |-> MonthAt(d, 0), account_id |-> "OPEX1",
                             amount_base |-> 30]>>), DimStandard>>,
                  <<Table(<<[fiscal_month |-> MonthAt(d, 0), account_id |-> "OPEX1",
                             amount_base |-> 30]>>), MissingTable>>},
          p \in {MissingTable, Table(<<>>)} \cup PayrollTables(d),
          cl \in {MissingTable} \cup MonthlyTables(d, {-4, -3, 0, 1}, {30}),
          mk \in {MissingTable} \cup MonthlyTables(d, {-3, 0}, {60, -30})} : d \in Dates}

\* CapEx inputs: the cash balance, one marketing row that sets the burn, the
\* CapEx schedule and (in Init) the delay vary.
CapexInputs ==
    UNION {
      {Mapping(c, MissingTable, MissingTable, MissingTable, MissingTable, mk, cx) :
          c \in {MissingTable}
                \cup {Table(<<CashRow("ts", d, a)>>) : a \in {-100, 0, 100, 10000}},
          mk \in {MissingTable} \cup MonthlyTables(d, {0}, {-30, 30, 100}),
          cx \in {MissingTable}
                 \cup {Table(x) : x \in SeqsUpTo(CapexRows(d), MaxRows)}} : d \in Dates}

\* Cent inputs: balances and a marketing spend of one or two cents, so that a
\* third of a cent decides the rounding of the snapshots.
CentInputs ==
    UNION {
      {Mapping(Table(<<CashRow("ts", d, a)>>), MissingTable, MissingTable,
               MissingTable, MissingTable, mk, MissingTable) :
          a \in {1, 2}, mk \in MonthlyTables(d, {0}, {1, 2})} : d \in Dates}

\* Refund inputs: a CapEx schedule whose first row is negative (money coming
\* back), next to a burn of 0.10 a month and a balance of either sign.
RefundInputs ==
    UNION {
      {Mapping(Table(<<CashRow("ts", d, a)>>), MissingTable, MissingTable,
               MissingTable, MissingTable,
               Table(<<[fiscal_month |-> MonthAt(d, 0), amount |-> 30]>>),
               Table(cx)) :
          a \in {-100, 0, 100},
          cx \in {<<[planned_month |-> MonthAt(d, 1), planned_amount |-> -5000]>>,
                  <<[planned_month |-> MonthAt(d, 1), planned_amount |-> -10]>>,
                  <<[planned_month |-> MonthAt(d, 1), planned_amount |-> -5000],
                    [planned_month |-> MonthAt(d, 2), planned_amount |-> 5000]>>}} :
        d \in Dates}

\* The worked scenario: 300000.00 of cash on 2024-03-31 and 90000.00 of Opex
\* over 2024-01..2024-03 (amounts in cents).
Scenario ==
    Mapping(Table(<<CashRow("ts", <<2024, 3, 31>>, 30000000)>>),
            Table([k \in 1..3 |->
                    [fiscal_month |-> <<2024, k>>, account_id |-> "OPEX1",
                     amount_base |-> 3000000]]),
            DimStandard, MissingTable, MissingTable, MissingTable, MissingTable)

\* No database and no tool invocation: calculate_runway is called directly.
NoDb == [t \in {} |-> <<>>]
NoArgs == [k \in {} |-> 0]
ToolOff ==
    /\ db = NoDb
    /\ args = NoArgs
    /\ tool_pc = "off"
    /\ delay = 0
    /\ tool_result = NoResult
    /\ loads = 0
    /\ calls = 0
    /\ invocations = 0

\* A cell of a KPI record or table: a number, a string, NaN, None, or the
\* mark of a key the record does not have.
Num(n) == [kind |-> "num", n |-> n, s |-> ""]
Text(str) == [kind |-> "str", n |-> 0, s |-> str]
NaN == [kind |-> "nan", n |-> 0, s |-> ""]
None == [kind |-> "none", n |-> 0, s |-> ""]
Absent == [kind |-> "absent", n |-> 0, s |-> ""]

\* The status counters before lines 54-57 have run, and once they have.
Unbound == [bound |-> FALSE, on_target |-> 0, above_target |-> 0,
            below_target |-> 0, unknown |-> 0]
ZeroCounts == [bound |-> TRUE, on_target |-> 0, above_target |-> 0,
               below_target |-> 0, unknown |-> 0]

NoSlide == [raised |-> "", value |-> <<>>]

\* generate_kpi_slide is not called.
SlideOff ==
    /\ slide_dfs = [t \in {} |-> MissingTable]
    /\ slide_month = <<0, 0>>
    /\ slide_pc = "off"
    /\ kpi_records = <<>>
    /\ kpi_done = 0
    /\ counts = Unbound
    /\ slide_result = <<>>
    /\ summary_parts = <<>>
    /\ slide_return = NoSlide

\* No caller that repeats calls.
DriverOff ==
    /\ history = <<>>
    /\ driver_pc = "off"
    /\ entry_tables = <<>>
    /\ version = 0

\* burn_by_function is not called.
BurnOff ==
    /\ burn_dfs = <<>>
    /\ burn_pc = "off"
    /\ burn_return = <<>>

\* variance_report is not called.
VarianceOff ==
    /\ var_dfs = <<>>
    /\ fiscal_quarter = ""
    /\ budget_version = ""
    /\ var_pc = "off"
    /\ var_return = <<>>

\* No wrapper is invoked.
WrapperOff ==
    /\ wrap_db = NoDb
    /\ wrap_tool = ""
    /\ wrap_args = NoArgs
    /\ wrap_pc = "off"
    /\ wrap_dfs = <<>>
    /\ wrap_calls = 0
    /\ wrap_inner = <<>>
    /\ wrap_return = <<>>

ReportsOff == BurnOff /\ VarianceOff /\ WrapperOff

ExtraOff == DriverOff /\ ReportsOff

Init ==
    /\ \/ dfs \in OpexInputs /\ delay_capex_days = 0
       \/ dfs \in SourceInputs /\ delay_capex_days \in {0, 90}
       \/ dfs \in CapexInputs /\ delay_capex_days \in Delays \cup {-30}
       \/ dfs \in CentInputs /\ delay_capex_days = 0
       \/ dfs \in RefundInputs /\ delay_capex_days \in {0, 28}
       \/ dfs = Scenario /\ delay_capex_days = 0
    /\ pc = "start"
    /\ latest_date = NoDate
    /\ current_cash = 0
    /\ three_months_ago = NoDate
    /\ monthly_burn = 0
    /\ capex_df = <<>>
    /\ capex_by_month = NoDict
    /\ projection = <<>>
    /\ cash = 0
    /\ current_month = NoDate
    /\ runway_months = 0
    /\ i = 0
    /\ result = NoResult
    /\ ToolOff
    /\ SlideOff
    /\ ExtraOff

\* --------------------------------------------------------------- actions
\* Lines 19-26: no cash table, or one without rows.
ReturnNoCash ==
    /\ pc = "start"
    /\ Empty(Get(dfs, "fact_cash_balance_daily"))
    /\ result' = EmptyResult
    /\ pc' = "done"
    /\ UNCHANGED <<dfs, delay_capex_days, locals>>
    /\ UNCHANGED <<tool, slide, extra>>

\* Lines 28-38: the date column is parsed in place when it holds strings;
\* latest_date, current_cash and three_months_ago are set.
ReadCash ==
    /\ pc = "start"
    /\ ~Empty(Get(dfs, "fact_cash_balance_daily"))
    /\ LET cash_df == Get(dfs, "fact_cash_balance_daily")
           parsed  == IF Dtype(cash_df, "date") = "object"
                      THEN ToDatetime(cash_df, "date") ELSE cash_df
           latest  == MaxDate(parsed, "date")
       IN  /\ dfs' = [dfs EXCEPT !.fact_cash_balance_daily.rows = parsed]
           /\ latest_date' = latest
           /\ current_cash' = Scale * ColSum(RowsOn(parsed, "date", latest), "ending_cash")
           /\ three_months_ago' = AddMonths(latest, 0 - WindowMonths)
    /\ monthly_burn' = 0
    /\ pc' = "opex"
    /\ UNCHANGED <<delay_capex_days, capex_df, capex_by_month, projection, cash,
                   current_month, runway_months, i, result>>
    /\ UNCHANGED <<tool, slide, extra>>

\* Lines 40-59: the Opex rows of the GL in the window, a third of their total.
AddOpex ==
    /\ pc = "opex"
    /\ LET rows == OpexRows(Get(dfs, "fact_gl_actuals_monthly"),
                            Get(dfs, "dim_account"), three_months_ago, latest_date)
       IN  monthly_burn' = monthly_burn + ColSum(rows, "amount_base")
    /\ pc' = "payroll"
    /\ UNCHANGED <<dfs, delay_capex_days, latest_date, current_cash,
                   three_months_ago, capex_df, capex_by_month, projection, cash,
                   current_month, runway_months, i, result>>
    /\ UNCHANGED <<tool, slide, extra>>

\* Lines 61-76: pay_date is parsed in place when it holds strings; a third of
\* the four pay columns over the window is added.
AddPayroll ==
    /\ pc = "payroll"
    /\ LET payroll_df == Get(dfs, "fact_payroll_runs")
           parsed == IF ~Empty(payroll_df) /\ Dtype(payroll_df, "pay_date") = "object"
                     THEN ToDatetime(payroll_df, "pay_date") ELSE payroll_df
       IN  /\ dfs' = IF Empty(payroll_df) THEN dfs
                     ELSE [dfs EXCEPT !.fact_payroll_runs.rows = parsed]
           /\ monthly_burn' = monthly_burn
                + PayrollTotal(PayrollRows(parsed, three_months_ago, latest_date))
    /\ pc' = "cloud"
    /\ UNCHANGED <<delay_capex_days, latest_date, current_cash, three_months_ago,
                   capex_df, capex_by_month, projection, cash, current_month,
                   runway_months, i, result>>
    /\ UNCHANGED <<tool, slide, extra>>

\* Lines 78-88: a third of the cloud costs of the window.
AddCloud ==
    /\ pc = "cloud"
    /\ monthly_burn' = monthly_burn
         + ColSum(MonthlyRows(Get(dfs, "fact_it_cloud_costs"),
                              three_months_ago, latest_date), "amount")
    /\ pc' = "marketing"
    /\ UNCHANGED <<dfs, delay_capex_days, latest_date, current_cash,
                   three_months_ago, capex_df, capex_by_month, projection, cash,
                   current_month, runway_months, i, result>>
    /\ UNCHANGED <<tool, slide, extra>>

\* Lines 90-100: a third of the marketing spend of the window.
AddMarketing ==
    /\ pc = "marketing"
    /\ monthly_burn' = monthly_burn
         + ColSum(MonthlyRows(Get(dfs, "fact_marketing_spend_detail"),
                              three_months_ago, latest_date), "amount")
    /\ pc' = "check"
    /\ UNCHANGED <<dfs, delay_capex_days, latest_date, current_cash,
                   three_months_ago, capex_df, capex_by_month, projection, cash,
                   current_month, runway_months, i, result>>
    /\ UNCHANGED <<tool, slide, extra>>

\* Lines 102-108: no burn at all.
ReturnNoBurn ==
    /\ pc = "check"
    /\ monthly_burn = 0
    /\ result' = [current_cash |-> Round2(current_cash), monthly_burn |-> 0,
                  runway_months |-> RunwayWithoutBurn(current_cash),
                  projection |-> <<>>]
    /\ pc' = "done"
    /\ UNCHANGED <<dfs, delay_capex_days, locals>>
    /\ UNCHANGED <<tool, slide, extra>>

\* Lines 110-134: the schedule is copied and delayed, the projection starts
\* at the month after latest_date, and the month -> CapEx dict is built.
PrepareProjection ==
    /\ pc = "check"
    /\ monthly_burn # 0
    /\ capex_df' = DelayCapex(Get(dfs, "fact_capex_schedule"), delay_capex_days)
    /\ projection' = <<>>
    /\ cash' = current_cash
    /\ current_month' = AddMonths(ReplaceDay1(latest_date), 1)
    /\ runway_months' = 0
    /\ capex_by_month' = CapexByMonth(capex_df', NoDict)
    /\ i' = 0
    /\ pc' = "loop"
    /\ dfs' = [dfs EXCEPT !.fact_capex_schedule.rows =
                                ScheduleAfterDelay(@, capex_df')]
    /\ UNCHANGED <<delay_capex_days, latest_date, current_cash,
                   three_months_ago, monthly_burn, result>>
    /\ UNCHANGED <<tool, slide, extra>>

\* Lines 137-156: one iteration of the projection loop.
ProjectMonth ==
    /\ pc = "loop"
    /\ i < MaxMonths
    /\ LET month_str == Strftime(current_month)
           capex_for_month == CapexFor(capex_by_month, month_str)
           total_outflow == TotalOutflow(monthly_burn, capex_for_month)
       IN  /\ cash' = cash - total_outflow
           /\ runway_months' = IterCount(i)
           /\ projection' = Append(projection,
                  Snapshot(month_str, cash', monthly_burn, capex_for_month,
                           total_outflow))
    /\ IF Depleted(cash')
       THEN /\ pc' = "return"
            /\ UNCHANGED <<current_month, i>>
       ELSE /\ current_month' = AddMonths(current_month, 1)
            /\ i' = i + 1
            /\ pc' = IF i + 1 < MaxMonths THEN "loop" ELSE "return"
    /\ UNCHANGED <<dfs, delay_capex_days, latest_date, current_cash,
                   three_months_ago, monthly_burn, capex_df, capex_by_month,
                   result>>
    /\ UNCHANGED <<tool, slide, extra>>

\* Lines 158-163: the result, its three numbers rounded to cents.
ReturnResult ==
    /\ pc = "return"
    /\ result' = [current_cash |-> Round2(current_cash),
                  monthly_burn |-> Round2(monthly_burn),
                  runway_months |-> Fin(runway_months),
                  projection |-> projection]
    /\ pc' = "done"
    /\ UNCHANGED <<dfs, delay_capex_days, locals>>
    /\ UNCHANGED <<tool, slide, extra>>

Next ==
    \/ ReturnNoCash
    \/ ReadCash
    \/ AddOpex
    \/ AddPayroll
    \/ AddCloud
    \/ AddMarketing
    \/ ReturnNoBurn
    \/ PrepareProjection
    \/ ProjectMonth
    \/ ReturnResult

Spec == Init /\ [][Next]_vars

\* The function runs to its return: no step of it waits on anything.
FairSpec == Spec /\ WF_vars(Next)

\* ------------------------------------------------------------ runway_tool
MaxInvocations == 2

TableNames ==
    {"fact_cash_balance_daily", "fact_gl_actuals_monthly", "dim_account",
     "fact_payroll_runs", "fact_it_cloud_costs", "fact_marketing_spend_detail",
     "fact_capex_schedule"}

\* load_all_tables: one DataFrame for each table of the schema, holding all
\* of its rows; a table the schema does not have is not a key of the dict.
LoadAllTables(database) ==
    [t \in TableNames |->
        IF t \in DOMAIN database THEN Table(database[t]) ELSE MissingTable]

\* A wrapper that never passes a delay on.
ArgDelayIgnored(a) == 0

\* Line 16: args.get("delay_capex_days", 0)
ArgDelay(a) ==
    IF "delay_capex_days" \in DOMAIN a THEN a.delay_capex_days ELSE 0

\* Databases: a schema without a cash table, one with cash only (dates
\* stored as strings), and two with a marketing spend and a CapEx schedule.
ToolDbs ==
    LET d == <<2023, 12, 15>>
        capex == <<[planned_month |-> MonthAt(d, 1), planned_amount |-> 50]>>
        mkt == <<[fiscal_month |-> MonthAt(d, 0), amount |-> 30]>>
    IN  {[fact_capex_schedule |-> capex],
         [fact_cash_balance_daily |-> <<CashRow("str", d, 100)>>],
         [fact_cash_balance_daily |-> <<CashRow("str", d, 100)>>,
          fact_marketing_spend_detail |-> mkt, fact_capex_schedule |-> capex],
         [fact_cash_balance_daily |-> <<CashRow("ts", d, 200)>>,
          fact_marketing_spend_detail |-> mkt, fact_capex_schedule |-> capex]}

ToolArgs == {NoArgs} \cup {[delay_capex_days |-> d] : d \in {0, 90}}

InitTool ==
    /\ db \in ToolDbs
    /\ args = NoArgs
    /\ tool_pc = "idle"
    /\ delay = 0
    /\ tool_result = NoResult
    /\ loads = 0
    /\ calls = 0
    /\ invocations = 0
    /\ dfs = LoadAllTables(NoDb)
    /\ delay_capex_days = 0
    /\ pc = "done"
    /\ latest_date = NoDate
    /\ current_cash = 0
    /\ three_months_ago = NoDate
    /\ monthly_burn = 0
    /\ capex_df = <<>>
    /\ capex_by_month = NoDict
    /\ projection = <<>>
    /\ cash = 0
    /\ current_month = NoDate
    /\ runway_months = 0
    /\ i = 0
    /\ result = NoResult
    /\ SlideOff
    /\ ExtraOff

\* The tables of the database change between two invocations, when the
\* caller holds the result of the last one.
DbChange ==
    /\ tool_pc \in {"idle", "returned"}
    /\ invocations < MaxInvocations
    /\ db' \in ToolDbs \ {db}
    /\ tool_pc' = "idle"
    /\ UNCHANGED <<args, delay, tool_result, loads, calls, invocations>>
    /\ UNCHANGED <<runway, slide, extra>>

\* Line 5: the tool is invoked with an argument dict.
Invoke ==
    /\ tool_pc \in {"idle", "returned"}
    /\ invocations < MaxInvocations
    /\ args' \in ToolArgs
    /\ invocations' = invocations + 1
    /\ loads' = 0
    /\ calls' = 0
    /\ tool_pc' = "load"
    /\ UNCHANGED <<db, delay, tool_result>>
    /\ UNCHANGED <<runway, slide, extra>>

\* Line 15: dfs = load_all_tables()
LoadTables ==
    /\ tool_pc = "load"
    /\ dfs' = LoadAllTables(db)
    /\ loads' = loads + 1
    /\ tool_pc' = "delay"
    /\ UNCHANGED <<db, args, delay, tool_result, calls, invocations>>
    /\ UNCHANGED <<delay_capex_days, pc, locals, result, slide, extra>>

\* Line 16: delay = args.get("delay_capex_days", 0)
ReadDelay ==
    /\ tool_pc = "delay"
    /\ delay' = ArgDelay(args)
    /\ tool_pc' = "call"
    /\ UNCHANGED <<db, args, tool_result, loads, calls, invocations>>
    /\ UNCHANGED <<runway, slide, extra>>

\* Line 17: calculate_runway(dfs, delay_capex_days=delay) is entered with a
\* new frame.
CallRunway ==
    /\ tool_pc = "call"
    /\ delay_capex_days' = delay
    /\ pc' = "start"
    /\ latest_date' = NoDate
    /\ current_cash' = 0
    /\ three_months_ago' = NoDate
    /\ monthly_burn' = 0
    /\ capex_df' = <<>>
    /\ capex_by_month' = NoDict
    /\ projection' = <<>>
    /\ cash' = 0
    /\ current_month' = NoDate
    /\ runway_months' = 0
    /\ i' = 0
    /\ result' = NoResult
    /\ calls' = calls + 1
    /\ tool_pc' = "running"
    /\ UNCHANGED <<db, args, delay, tool_result, loads, invocations>>
    /\ UNCHANGED <<dfs, slide, extra>>

\* Lines 17-18: the call has returned; its result is returned.
ToolReturn ==
    /\ tool_pc = "running"
    /\ pc = "done"
    /\ tool_result' = result
    /\ tool_pc' = "returned"
    /\ UNCHANGED <<db, args, delay, loads, calls, invocations>>
    /\ UNCHANGED <<runway, slide, extra>>

NextTool ==
    \/ DbChange
    \/ Invoke
    \/ LoadTables
    \/ ReadDelay
    \/ CallRunway
    \/ ReturnNoCash
    \/ ReadCash
    \/ AddOpex
    \/ AddPayroll
    \/ AddCloud
    \/ AddMarketing
    \/ ReturnNoBurn
    \/ PrepareProjection
    \/ ProjectMonth
    \/ ReturnResult
    \/ ToolReturn

SpecTool == InitTool /\ [][NextTool]_vars

\* ----------------------------------------------------- generate_kpi_slide
\* Python truth of a cell: NaN is true, 0, '' and None are false.
Truthy(c) ==
    CASE c.kind = "num" -> c.n # 0
      [] c.kind = "str" -> c.s # ""
      [] c.kind = "nan" -> TRUE
      [] OTHER -> FALSE

\* dict.get(key): None for a key the record does not have.
GetCell(c) == IF c = Absent THEN None ELSE c

\* Lines 65-71 on one cell: NaN becomes None; a number is rounded to two
\* decimals (amounts are kept in hundredths) and a string stays what it is.
Converted(c) == IF c = NaN THEN None ELSE c

\* Line 31 / line 43: the rows of a fiscal month.
RowsOfMonth(df, month) ==
    LET Keep(r) == r.fiscal_month = month
    IN  SelectSeq(df, Keep)

\* Lines 35-39: left merge with the definitions on kpi_id.  A row without a
\* definition keeps NaN in the new column; a row with several definitions is
\* repeated.
RECURSIVE MergeDefinitions(_, _)
MergeDefinitions(rows, defs) ==
    IF rows = <<>> THEN <<>>
    ELSE LET r == Head(rows)
             Match(d) == d.kpi_id = r.kpi_id
             m == SelectSeq(defs, Match)
             merged == IF m = <<>> THEN <<[r EXCEPT !.name = NaN]>>
                       ELSE [k \in 1..Len(m) |-> [r EXCEPT !.name = m[k].name]]
         IN  merged \o MergeDefinitions(Tail(rows), defs)

\* Lines 44-48: left merge with the targets of the month on kpi_id.
RECURSIVE MergeTargets(_, _)
MergeTargets(rows, targets) ==
    IF rows = <<>> THEN <<>>
    ELSE LET r == Head(rows)
             Match(t) == t.kpi_id = r.kpi_id
             m == SelectSeq(targets, Match)
             merged ==
                 IF m = <<>>
                 THEN <<[r EXCEPT !.target_value = NaN,
                                  !.traffic_light_thresholds = NaN]>>
                 ELSE [k \in 1..Len(m) |->
                         [r EXCEPT !.target_value = m[k].target_value,
                                   !.traffic_light_thresholds =
                                        m[k].traffic_light_thresholds]]
         IN  merged \o MergeTargets(Tail(rows), targets)

\* Lines 31-51: the records of the month.
KpiRecords(kpi_monthly, definitions, targets, month) ==
    LET base == [k \in 1..Len(RowsOfMonth(kpi_monthly, month)) |->
                   LET r == RowsOfMonth(kpi_monthly, month)[k]
                   IN  [fiscal_month |-> r.fiscal_month, kpi_id |-> r.kpi_id,
                        value |-> r.value, name |-> Absent,
                        target_value |-> Absent,
                        traffic_light_thresholds |-> Absent, status |-> ""]]
        named == IF Empty(definitions) THEN base
                 ELSE MergeDefinitions(base, definitions)
    IN  IF Empty(targets) THEN named
        ELSE MergeTargets(named, RowsOfMonth(targets, month))

\* Line 60: the name of the record, KPI_<kpi_id> without a name column.
KpiName(kpi) ==
    IF kpi.name = Absent
    THEN [kind |-> "default", n |-> 0, s |-> kpi.kpi_id]
    ELSE kpi.name

\* Lines 81-100: the status of a record.  A NaN value or target makes every
\* comparison false; a value that is not a number raises inside the try.
StatusOf(kpi_value, target_value, thresholds) ==
    IF Truthy(thresholds) /\ Truthy(target_value)
    THEN CASE kpi_value.kind \notin {"num", "nan"} -> "unknown"
           [] target_value.kind \notin {"num", "nan"} -> "unknown"
           [] kpi_value.kind = "nan" \/ target_value.kind = "nan" -> "below_target"
           [] OTHER ->
                LET v == kpi_value.n
                    t == target_value.n
                    diff == IF v >= t THEN v - t ELSE t - v
                    mag  == IF t >= 0 THEN t ELSE 0 - t
                IN  IF 100 * diff < 5 * mag THEN "on_target"
                    ELSE IF (v - t) * t > 0 THEN "above_target"
                    ELSE "below_target"
    ELSE "unknown"

\* counts with one more record of the status.
Counted(c, status) ==
    CASE status = "on_target" -> [c EXCEPT !.on_target = @ + 1]
      [] status = "above_target" -> [c EXCEPT !.above_target = @ + 1]
      [] status = "below_target" -> [c EXCEPT !.below_target = @ + 1]
      [] OTHER -> [c EXCEPT !.unknown = @ + 1]

\* result["key_metrics"][name] = metric on an insertion-ordered dict: a key
\* that is there keeps its place.
PutMetric(dict, name, metric) ==
    IF \E k \in 1..Len(dict) : dict[k].name = name
    THEN [k \in 1..Len(dict) |->
            IF dict[k].name = name THEN [name |-> name, metric |-> metric]
            ELSE dict[k]]
    ELSE Append(dict, [name |-> name, metric |-> metric])

\* Lines 107-113: the texts of the commentary blocks that are not empty.
NarrativeParts(commentary) ==
    LET Keep(b) == Truthy(b.text_md)
        kept == SelectSeq(commentary, Keep)
    IN  [k \in 1..Len(kept) |-> kept[k].text_md.s]

\* Lines 105-117: the narrative: the texts joined, or one of two sentences.
Narrative(commentary, month) ==
    IF ~Empty(commentary)
    THEN IF NarrativeParts(commentary) # <<>>
         THEN [text |-> "joined", parts |-> NarrativeParts(commentary)]
         ELSE [text |-> "No commentary available for this period.", parts |-> <<>>]
    ELSE [text |-> "Financial summary for the month.", parts |-> <<>>]

\* Lines 135-142: the first five key metrics, with the target when it is true.
KeyMetricsList(dict) ==
    [k \in 1..Min(5, Len(dict)) |->
        IF Truthy(GetCell(dict[k].metric.target))
        THEN [name |-> dict[k].name, value |-> dict[k].metric.value,
              target |-> dict[k].metric.target, status |-> dict[k].metric.status]
        ELSE [name |-> dict[k].name, value |-> dict[k].metric.value,
              target |-> Absent, status |-> ""]]

SlideMonths == {<<2024, 1>>, <<2024, 2>>}

KpiRows ==
    {[fiscal_month |-> m, kpi_id |-> id, value |-> v] :
        m \in SlideMonths, id \in {"K1", "K2"},
        v \in {Num(103), Num(90), Num(110), NaN}}

DefinitionTables ==
    {MissingTable, Table(<<>>),
     Table(<<[kpi_id |-> "K1", name |-> Text("Revenue")]>>),
     Table(<<[kpi_id |-> "K1", name |-> Text("Revenue")],
             [kpi_id |-> "K2", name |-> Text("Revenue")]>>),
     Table(<<[kpi_id |-> "K1", name |-> Text("Revenue")],
             [kpi_id |-> "K1", name |-> Text("ARR")]>>)}

TargetRow(m, id, target, thresholds) ==
    [fiscal_month |-> m, kpi_id |-> id, target_value |-> target,
     traffic_light_thresholds |-> thresholds]

TargetTables ==
    {MissingTable,
     Table(<<TargetRow(<<2024, 1>>, "K1", Num(100), Text("green<5"))>>),
     Table(<<TargetRow(<<2024, 1>>, "K1", Num(0), Text("green<5"))>>),
     Table(<<TargetRow(<<2024, 1>>, "K1", Num(0 - 100), Text("green<5"))>>),
     Table(<<TargetRow(<<2024, 1>>, "K1", NaN, Text("green<5"))>>),
     Table(<<TargetRow(<<2024, 1>>, "K1", Num(100), None)>>),
     Table(<<TargetRow(<<2024, 2>>, "K1", Num(100), Text("green<5"))>>)}

CommentaryTables ==
    {MissingTable,
     Table(<<[text_md |-> Text("Strong quarter.")]>>),
     Table(<<[text_md |-> Text("")], [text_md |-> None]>>),
     Table(<<[text_md |-> Text("Strong quarter.")], [text_md |-> Text("Costs flat.")]>>)}

SlideMapping(kpiT, defT, targetT, commentT) ==
    [kpi_monthly |-> kpiT, kpi_definitions |-> defT,
     metric_targets |-> targetT, commentary_library |-> commentT]

\* KPI inputs: every KPI table of up to MaxRows rows next to standard tables.
KpiInputs ==
    {SlideMapping(k, df, t, MissingTable) :
        k \in {MissingTable} \cup {Table(x) : x \in SeqsUpTo(KpiRows, MaxRows)},
        df \in {MissingTable,
                Table(<<[kpi_id |-> "K1", name |-> Text("Revenue")]>>)},
        t \in {MissingTable,
               Table(<<TargetRow(<<2024, 1>>, "K1", Num(100), Text("green<5"))>>)}}

\* Join inputs: a few KPI tables next to every definition, target and
\* commentary table.
JoinInputs ==
    {SlideMapping(k, df, t, c) :
        k \in {Table(<<>>),
               Table(<<[fiscal_month |-> <<2024, 1>>, kpi_id |-> "K1",
                        value |-> Num(103)]>>),
               Table(<<[fiscal_month |-> <<2024, 1>>, kpi_id |-> "K1",
                        value |-> Text("n/a")],
                       [fiscal_month |-> <<2024, 1>>, kpi_id |-> "K2",
                        value |-> Num(110)]>>)},
        df \in DefinitionTables, t \in TargetTables, c \in CommentaryTables}

InitSlides ==
    /\ \/ slide_dfs \in KpiInputs /\ slide_month = <<2024, 1>>
       \/ slide_dfs \in JoinInputs /\ slide_month \in SlideMonths
    /\ slide_pc = "start"
    /\ kpi_records = <<>>
    /\ kpi_done = 0
    /\ counts = Unbound
    /\ slide_result = <<>>
    /\ summary_parts = <<>>
    /\ slide_return = NoSlide
    /\ ToolOff
    /\ ExtraOff
    /\ dfs = LoadAllTables(NoDb)
    /\ delay_capex_days = 0
    /\ pc = "done"
    /\ latest_date = NoDate
    /\ current_cash = 0
    /\ three_months_ago = NoDate
    /\ monthly_burn = 0
    /\ capex_df = <<>>
    /\ capex_by_month = NoDict
    /\ projection = <<>>
    /\ cash = 0
    /\ current_month = NoDate
    /\ runway_months = 0
    /\ i = 0
    /\ result = NoResult

\* Lines 16-21: the result dict at the start.
NewSlideResult(month) ==
    [month |-> month, kpis |-> <<>>, narrative |-> <<>>, key_metrics |-> <<>>]

\* Lines 16-30: kpi_monthly is missing or has no rows; the block of lines
\* 31-102 is skipped.
SkipKpis ==
    /\ slide_pc = "start"
    /\ Empty(Get(slide_dfs, "kpi_monthly"))
    /\ slide_result' = NewSlideResult(slide_month)
    /\ slide_pc' = "narrative"
    /\ UNCHANGED <<slide_dfs, slide_month, kpi_records, kpi_done, counts,
                   summary_parts, slide_return>>
    /\ UNCHANGED <<runway, tool, extra>>

\* Lines 16-57: the records of the month are selected and joined, and the
\* four counters are set to 0.
SelectKpis ==
    /\ slide_pc = "start"
    /\ ~Empty(Get(slide_dfs, "kpi_monthly"))
    /\ slide_result' = NewSlideResult(slide_month)
    /\ kpi_records' = KpiRecords(Get(slide_dfs, "kpi_monthly"),
                                 Get(slide_dfs, "kpi_definitions"),
                                 Get(slide_dfs, "metric_targets"), slide_month)
    /\ kpi_done' = 0
    /\ counts' = ZeroCounts
    /\ slide_pc' = "loop"
    /\ UNCHANGED <<slide_dfs, slide_month, summary_parts, slide_return>>
    /\ UNCHANGED <<runway, tool, extra>>

\* Lines 59-100: one record: its cells are converted, its key metric is
\* written with the status "on_target", and its own status is set and counted.
ClassifyKpi ==
    /\ slide_pc = "loop"
    /\ kpi_done < Len(kpi_records)
    /\ LET kpi == kpi_records[kpi_done + 1]
           kpi_name == KpiName(kpi)
           kpi_value == kpi.value
           target_value == GetCell(kpi.target_value)
           converted == [kpi EXCEPT !.value = Converted(@),
                                    !.name = Converted(@),
                                    !.target_value = Converted(@),
                                    !.traffic_light_thresholds = Converted(@)]
           thresholds == GetCell(converted.traffic_light_thresholds)
           status == StatusOf(kpi_value, target_value, thresholds)
       IN  /\ slide_result' =
                [slide_result EXCEPT !.key_metrics =
                    PutMetric(@, kpi_name,
                              [value |-> kpi_value, target |-> target_value,
                               status |-> "on_target"])]
           /\ kpi_records' = [kpi_records EXCEPT ![kpi_done + 1] =
                                 [converted EXCEPT !.status = status]]
           /\ counts' = Counted(counts, status)
    /\ kpi_done' = kpi_done + 1
    /\ UNCHANGED <<slide_dfs, slide_month, slide_pc, summary_parts, slide_return>>
    /\ UNCHANGED <<runway, tool, extra>>

\* Line 102: result["kpis"] = kpi_records
StoreKpis ==
    /\ slide_pc = "loop"
    /\ kpi_done = Len(kpi_records)
    /\ slide_result' = [slide_result EXCEPT !.kpis = kpi_records]
    /\ slide_pc' = "narrative"
    /\ UNCHANGED <<slide_dfs, slide_month, kpi_records, kpi_done, counts,
                   summary_parts, slide_return>>
    /\ UNCHANGED <<runway, tool, extra>>

\* Lines 104-117: the narrative.
WriteNarrative ==
    /\ slide_pc = "narrative"
    /\ slide_result' =
         [slide_result EXCEPT !.narrative =
             Narrative(Get(slide_dfs, "commentary_library"), slide_month)]
    /\ slide_pc' = "summary"
    /\ UNCHANGED <<slide_dfs, slide_month, kpi_records, kpi_done, counts,
                   summary_parts, slide_return>>
    /\ UNCHANGED <<runway, tool, extra>>

\* Lines 119-149: the summary text; the counters are read only when there
\* are records.
WriteSummary ==
    /\ slide_pc = "summary"
    /\ summary_parts' =
         <<[part |-> "KPI summary for", month |-> slide_month],
           [part |-> "Total KPIs tracked", n |-> Len(slide_result.kpis)]>>
         \o (IF slide_result.kpis # <<>>
             THEN <<[part |-> "Status breakdown", counts |-> counts]>>
                  \o (IF slide_result.key_metrics # <<>>
                      THEN <<[part |-> "Key metrics",
                              list |-> KeyMetricsList(slide_result.key_metrics)]>>
                      ELSE <<>>)
             ELSE <<[part |-> "No KPI data available for this month."]>>)
    /\ slide_pc' = "return"
    /\ UNCHANGED <<slide_dfs, slide_month, kpi_records, kpi_done, counts,
                   slide_result, slide_return>>
    /\ UNCHANGED <<runway, tool, extra>>

\* Lines 151-164: the returned dict; the four counters are read.
ReturnSlide ==
    /\ slide_pc = "return"
    /\ counts.bound
    /\ slide_return' =
         [raised |-> "",
          value |-> [month |-> slide_month,
                     kpis |-> slide_result.kpis,
                     narrative |-> slide_result.narrative,
                     key_metrics |-> slide_result.key_metrics,
                     summary |-> [total_kpis |-> Len(slide_result.kpis),
                                  on_target_count |-> counts.on_target,
                                  above_target_count |-> counts.above_target,
                                  below_target_count |-> counts.below_target,
                                  unknown_count |-> counts.unknown],
                     summary_text |-> summary_parts]]
    /\ slide_pc' = "done"
    /\ UNCHANGED <<slide_dfs, slide_month, kpi_records, kpi_done, counts,
                   slide_result, summary_parts>>
    /\ UNCHANGED <<runway, tool, extra>>

\* Line 158: on_target_count is read before any assignment to it:
\* UnboundLocalError leaves the function.
RaiseUnbound ==
    /\ slide_pc = "return"
    /\ ~counts.bound
    /\ slide_return' = [raised |-> "UnboundLocalError", value |-> <<>>]
    /\ slide_pc' = "raised"
    /\ UNCHANGED <<slide_dfs, slide_month, kpi_records, kpi_done, counts,
                   slide_result, summary_parts>>
    /\ UNCHANGED <<runway, tool, extra>>

NextSlides ==
    \/ SkipKpis
    \/ SelectKpis
    \/ ClassifyKpi
    \/ StoreKpis
    \/ WriteNarrative
    \/ WriteSummary
    \/ ReturnSlide
    \/ RaiseUnbound

SpecSlides == InitSlides /\ [][NextSlides]_vars

\* ----------------------------------------------------- repeated calls
MaxCalls == 3

\* The four sources of the burn.
Sources ==
    {"fact_gl_actuals_monthly", "fact_payroll_runs", "fact_it_cloud_costs",
     "fact_marketing_spend_detail"}

\* Mappings of a caller: cash of 2.00 on 2023-01-31 with dates as strings,
\* all four sources (2.20 of spend in the window) and one of five CapEx
\* schedules; the same without the cash table; cash alone.
CallInputs ==
    LET d == <<2023, 1, 31>>
        cashT == Table(<<CashRow("str", d, 200)>>)
        glT == Table(<<[fiscal_month |-> MonthAt(d, 0), account_id |-> "OPEX1",
                        amount_base |-> 30]>>)
        payT == Table(<<[pay_date |-> Cell("str", d), gross_pay |-> 60,
                         taxes |-> 10, benefits |-> 20, contractor_cost |-> 10]>>)
        cloudT == Table(<<[fiscal_month |-> MonthAt(d, 0 - 3), amount |-> 30]>>)
        mktT == Table(<<[fiscal_month |-> MonthAt(d, 0), amount |-> 60]>>)
        Capex(k, x) == [planned_month |-> MonthAt(d, k), planned_amount |-> x]
        capexTs == {MissingTable, Table(<<Capex(1, 50)>>), Table(<<Capex(2, 5000)>>),
                    Table(<<Capex(1, 5000), Capex(2, 50)>>),
                    Table(<<Capex(1, 0 - 500)>>)}
    IN  {Mapping(cashT, glT, DimStandard, payT, cloudT, mktT, cx) : cx \in capexTs}
        \cup {Mapping(MissingTable, glT, DimStandard, payT, cloudT, mktT,
                      Table(<<Capex(1, 50)>>)),
              Mapping(cashT, MissingTable, MissingTable, MissingTable,
                      MissingTable, MissingTable, Table(<<Capex(1, 50)>>))}

InitCalls ==
    /\ dfs \in CallInputs
    /\ history = <<>>
    /\ driver_pc = "idle"
    /\ entry_tables = <<>>
    /\ version = 0
    /\ ToolOff
    /\ SlideOff
    /\ ReportsOff
    /\ delay_capex_days = 0
    /\ pc = "done"
    /\ latest_date = NoDate
    /\ current_cash = 0
    /\ three_months_ago = NoDate
    /\ monthly_burn = 0
    /\ capex_df = <<>>
    /\ capex_by_month = NoDict
    /\ projection = <<>>
    /\ cash = 0
    /\ current_month = NoDate
    /\ runway_months = 0
    /\ i = 0
    /\ result = NoResult

\* test_analytics.py lines 165, 186, 385, 386: calculate_runway is called on
\* the mapping the caller holds, with some delay; the call starts with a new
\* frame.
CallAgain ==
    /\ driver_pc = "idle"
    /\ Len(history) < MaxCalls
    /\ delay_capex_days' \in Delays
    /\ entry_tables' = dfs
    /\ pc' = "start"
    /\ latest_date' = NoDate
    /\ current_cash' = 0
    /\ three_months_ago' = NoDate
    /\ monthly_burn' = 0
    /\ capex_df' = <<>>
    /\ capex_by_month' = NoDict
    /\ projection' = <<>>
    /\ cash' = 0
    /\ current_month' = NoDate
    /\ runway_months' = 0
    /\ i' = 0
    /\ result' = NoResult
    /\ driver_pc' = "calling"
    /\ UNCHANGED <<dfs, history, version, tool, slide, reports>>

\* The call has returned: the caller keeps its result, next to the delay,
\* the tables the call was entered with and the burn rate it worked with.
RecordCall ==
    /\ driver_pc = "calling"
    /\ pc = "done"
    /\ history' = Append(history,
                         [delay |-> delay_capex_days, version |-> version,
                          tables |-> entry_tables, burn |-> monthly_burn,
                          result |-> result])
    /\ driver_pc' = "idle"
    /\ UNCHANGED <<runway, entry_tables, version, tool, slide, reports>>

\* After its first call the caller replaces one source table that has rows
\* by an empty table, or takes it out of the mapping.
ReplaceSource ==
    /\ driver_pc = "idle"
    /\ Len(history) = 1
    /\ version = 0
    /\ \E src \in Sources, t \in {MissingTable, Table(<<>>)} :
          /\ ~Empty(Get(dfs, src))
          /\ dfs' = [dfs EXCEPT ![src] = t]
    /\ version' = version + 1
    /\ UNCHANGED <<delay_capex_days, pc, locals, result>>
    /\ UNCHANGED <<history, driver_pc, entry_tables, tool, slide, reports>>

NextCalls ==
    \/ CallAgain
    \/ RecordCall
    \/ ReplaceSource
    \/ ReturnNoCash
    \/ ReadCash
    \/ AddOpex
    \/ AddPayroll
    \/ AddCloud
    \/ AddMarketing
    \/ ReturnNoBurn
    \/ PrepareProjection
    \/ ProjectMonth
    \/ ReturnResult

SpecCalls == InitCalls /\ [][NextCalls]_vars

\* ------------------------------------------------------ burn_by_function
\* The function cell of a GL row whose department is not in dim_org.
NoFunction == "NaN"

\* round(x / n, 2) of an amount of x cents, in cents.
RoundDiv(x, n) ==
    IF x >= 0 THEN (2 * x + n) \div (2 * n)
    ELSE 0 - ((2 * (0 - x) + n) \div (2 * n))

\* Lines 34-36: the rows of Opex accounts when dim_account has rows, every
\* row otherwise.
BurnOpexRows(gl, dim) ==
    LET Keep(r) == r.account_id \in OpexAccounts(dim)
    IN  IF ~Empty(dim) THEN SelectSeq(gl, Keep) ELSE gl

\* Lines 39-48: the left join with dim_org on dept_id: one row for each
\* matching row of dim_org, one row with a NaN function when there is none;
\* 'Unknown' for every row when dim_org has no rows.
RECURSIVE JoinFunction(_, _)
JoinFunction(gl, org) ==
    IF gl = <<>> THEN <<>>
    ELSE LET r == Head(gl)
             Match(o) == o.dept_id = r.dept_id
             found == SelectSeq(org, Match)
             Joined(f) == [function |-> f, fiscal_month |-> r.fiscal_month,
                           amount_base |-> r.amount_base]
             rows == IF Empty(org) THEN <<Joined("Unknown")>>
                     ELSE IF found = <<>> THEN <<Joined(NoFunction)>>
                     ELSE [k \in 1..Len(found) |-> Joined(found[k].function)]
         IN  rows \o JoinFunction(Tail(gl), org)

\* Line 51: groupby(['function', 'fiscal_month'])['amount_base'].sum(); a
\* NaN key makes no group.
BurnByFunctionMonth(rows) ==
    LET keys == {<<rows[k].function, rows[k].fiscal_month>> :
                    k \in {j \in 1..Len(rows) : rows[j].function # NoFunction}}
        Of(key) == SelectSeq(rows, LAMBDA r : <<r.function, r.fiscal_month>> = key)
    IN  {[function |-> key[1], fiscal_month |-> key[2],
          amount_base |-> SumSeq([k \in 1..Len(Of(key)) |-> Of(key)[k].amount_base])] :
            key \in keys}

\* The sum of amount_base over a set of groups.
RECURSIVE SumGroups(_)
SumGroups(S) ==
    IF S = {} THEN 0
    ELSE LET g == CHOOSE x \in S : TRUE IN g.amount_base + SumGroups(S \ {g})

\* Lines 54-62: for each function the sum over its months, the number of its
\* months and the quotient of the two; lines 71-80: floats rounded to cents.
FunctionSummary(groups) ==
    LET Of(f) == {g \in groups : g.function = f}
        Total(f) == SumGroups(Of(f))
    IN  {[function |-> f, total_burn |-> Total(f),
          month_count |-> Cardinality(Of(f)),
          avg_monthly_burn |-> RoundDiv(Total(f), Cardinality(Of(f)))] :
            f \in {g.function : g \in groups}}

\* An ascending sort.
InOrderAscending(a, b) == a.total_burn <= b.total_burn

\* Line 65: sort_values('total_burn', ascending=False)
InOrder(a, b) == a.total_burn >= b.total_burn

\* The orders sort_values can leave the entries in: entries of the same
\* total_burn come in any order.
SortedByTotal(entries) ==
    LET n == Cardinality(entries)
    IN  {f \in [1..n -> entries] :
            /\ \A a, b \in 1..n : a # b => f[a] # f[b]
            /\ \A a \in 1..n : a < n => InOrder(f[a], f[a + 1])}

\* Lines 83-116: the summary and the returned dict.
BurnResult(functions) ==
    LET n == Len(functions)
        total == SumSeq([k \in 1..n |-> functions[k].total_burn])
        avgs == SumSeq([k \in 1..n |-> functions[k].avg_monthly_burn])
        average == IF n > 0 THEN RoundDiv(avgs, n) ELSE 0
        top == IF n > 0
               THEN <<<<"highest", functions[1].function,
                        functions[1].avg_monthly_burn, functions[1].total_burn>>>>
               ELSE <<>>
        bottom == IF n > 1
                  THEN <<<<"lowest", functions[n].function,
                           functions[n].avg_monthly_burn>>>>
                  ELSE <<>>
    IN  [functions |-> functions,
         summary |-> [total_functions |-> n,
                      total_burn_all_functions |-> total,
                      average_monthly_burn_all_functions |-> average,
                      currency |-> "USD"],
         summary_text |-> <<<<"functions", n>>, <<"total", total>>,
                            <<"average", average>>>> \o top \o bottom]

\* GL rows of three departments (D9 is not in dim_org) on an Opex and on a
\* revenue account, in two months; the amounts are even numbers of cents,
\* so that no average falls on half a cent.
BurnGlRow(m, a, d, x) ==
    [fiscal_month |-> <<2024, m>>, account_id |-> a, dept_id |-> d,
     amount_base |-> x]

BurnGlRows ==
    {BurnGlRow(1, "OPEX1", "D1", 20), BurnGlRow(1, "OPEX1", "D1", 50),
     BurnGlRow(2, "OPEX1", "D1", 50), BurnGlRow(2, "REV1", "D1", 20),
     BurnGlRow(1, "OPEX1", "D2", 50), BurnGlRow(2, "OPEX1", "D2", 20),
     BurnGlRow(1, "REV1", "D2", 50), BurnGlRow(1, "OPEX1", "D9", 20)}

\* dim_org: missing, two departments of two functions, two of one function.
BurnOrgTables ==
    {MissingTable,
     Table(<<[dept_id |-> "D1", function |-> "Engineering"],
             [dept_id |-> "D2", function |-> "Sales"]>>),
     Table(<<[dept_id |-> "D1", function |-> "Engineering"],
             [dept_id |-> "D2", function |-> "Engineering"]>>)}

BurnInputs ==
    {[fact_gl_actuals_monthly |-> g, dim_org |-> o, dim_account |-> a] :
        g \in {MissingTable} \cup {Table(x) : x \in SeqsUpTo(BurnGlRows, MaxRows + 1)},
        o \in BurnOrgTables, a \in {MissingTable, DimStandard}}

InitBurn ==
    /\ burn_dfs \in BurnInputs
    /\ burn_pc = "start"
    /\ burn_return = <<>>
    /\ VarianceOff
    /\ WrapperOff
    /\ DriverOff
    /\ ToolOff
    /\ SlideOff
    /\ dfs = LoadAllTables(NoDb)
    /\ delay_capex_days = 0
    /\ pc = "done"
    /\ latest_date = NoDate
    /\ current_cash = 0
    /\ three_months_ago = NoDate
    /\ monthly_burn = 0
    /\ capex_df = <<>>
    /\ capex_by_month = NoDict
    /\ projection = <<>>
    /\ cash = 0
    /\ current_month = NoDate
    /\ runway_months = 0
    /\ i = 0
    /\ result = NoResult

\* Lines 17-31: no GL rows: the empty report.
BurnNoData ==
    /\ burn_pc = "start"
    /\ Empty(Get(burn_dfs, "fact_gl_actuals_monthly"))
    /\ burn_return' =
         [functions |-> <<>>,
          summary |-> [total_functions |-> 0, total_burn_all_functions |-> 0,
                       average_monthly_burn_all_functions |-> 0,
                       currency |-> "USD"],
          summary_text |-> <<<<"No burn data available.">>>>]
    /\ burn_pc' = "done"
    /\ UNCHANGED <<burn_dfs, variance, wrapper>>
    /\ UNCHANGED <<runway, tool, slide, driver>>

\* Lines 33-116: the report over the GL rows.
BurnReport ==
    /\ burn_pc = "start"
    /\ ~Empty(Get(burn_dfs, "fact_gl_actuals_monthly"))
    /\ LET gl == BurnOpexRows(Get(burn_dfs, "fact_gl_actuals_monthly"),
                              Get(burn_dfs, "dim_account"))
           joined == JoinFunction(gl, Get(burn_dfs, "dim_org"))
           entries == FunctionSummary(BurnByFunctionMonth(joined))
       IN  \E functions \in SortedByTotal(entries) :
              burn_return' = BurnResult(functions)
    /\ burn_pc' = "done"
    /\ UNCHANGED <<burn_dfs, variance, wrapper>>
    /\ UNCHANGED <<runway, tool, slide, driver>>

NextBurn ==
    \/ BurnNoData
    \/ BurnReport

SpecBurn == InitBurn /\ [][NextBurn]_vars

\* ------------------------------------------------------- variance_report
\* The order of the names as strings.
NameRank == [A1 |-> 1, A2 |-> 2, C1 |-> 3, C2 |-> 4, D1 |-> 5, D2 |-> 6,
             aws |-> 7, compute |-> 8, gcp |-> 9, prod |-> 10, search |-> 11,
             social |-> 12, storage |-> 13]

\* Tuples of names in the order groupby and merge leave their keys in.
TupleLE(a, b) ==
    \/ a = b
    \/ \E k \in 1..Len(a) :
          /\ \A j \in 1..(k - 1) : a[j] = b[j]
          /\ NameRank[a[k]] < NameRank[b[k]]

RECURSIVE SortTuples(_)
SortTuples(S) ==
    IF S = {} THEN <<>>
    ELSE LET first == CHOOSE k \in S : \A j \in S : TupleLE(k, j)
         IN  <<first>> \o SortTuples(S \ {first})

\* Lines 41-47: the quarter of a month is that of its first row in dim_time;
\* line 55: a month that dim_time does not have maps to NaN.
MonthToQuarter(time, month) ==
    LET at == {k \in 1..Len(time) : time[k].fiscal_month = month}
    IN  IF at = {} THEN "NaN"
        ELSE time[CHOOSE k \in at : \A j \in at : k <= j].fiscal_quarter

\* Lines 55-56 and 59-60: the rows of the quarter.
RowsOfQuarter(rows, time, quarter) ==
    SelectSeq(rows, LAMBDA r : MonthToQuarter(time, r.fiscal_month) = quarter)

\* Line 50: the budget rows of the version.
RowsOfVersion(rows, version_) ==
    SelectSeq(rows, LAMBDA r : r.version = version_)

\* The keys of groupby(['dept_id', 'account_id']).
PairsOf(rows) == {<<rows[k].dept_id, rows[k].account_id>> : k \in 1..Len(rows)}

\* Lines 79 and 83: the sum of amount_base of a group.
PairSum(rows, key) ==
    LET mine == SelectSeq(rows, LAMBDA r : <<r.dept_id, r.account_id>> = key)
    IN  SumSeq([k \in 1..Len(mine) |-> mine[k].amount_base])

\* An inner merge: the keys both sides have.
InnerKeys(a, b) == a \cap b

\* Line 87: how='outer': the keys either side has.
OuterKeys(a, b) == a \cup b

\* Lines 79-88: the merged aggregates, NaN filled with 0.
MergeAggregates(actuals, budget) ==
    LET keys == SortTuples(OuterKeys(PairsOf(actuals), PairsOf(budget)))
    IN  [k \in 1..Len(keys) |->
            [dept_id |-> keys[k][1], account_id |-> keys[k][2],
             actual |-> IF keys[k] \in PairsOf(actuals)
                        THEN PairSum(actuals, keys[k]) ELSE 0,
             budget |-> IF keys[k] \in PairsOf(budget)
                        THEN PairSum(budget, keys[k]) ELSE 0]]

\* Lines 91-112 and 120: the left joins with dim_org and dim_account: one
\* row for each matching row of the dimension; '' in the columns of a
\* dimension that has no rows or no matching row.
RECURSIVE JoinDimensions(_, _, _)
JoinDimensions(rows, org, accounts) ==
    IF rows = <<>> THEN <<>>
    ELSE LET r == Head(rows)
             noOrg == [dept_id |-> r.dept_id, dept_name |-> "", function |-> "",
                       cost_center |-> ""]
             noAccount == [account_id |-> r.account_id, account_name |-> "",
                           account_type |-> "", rollup_group |-> ""]
             os == SelectSeq(org, LAMBDA o : o.dept_id = r.dept_id)
             as == SelectSeq(accounts, LAMBDA a : a.account_id = r.account_id)
             orgs == IF os = <<>> THEN <<noOrg>> ELSE os
             accs == IF as = <<>> THEN <<noAccount>> ELSE as
             n == Len(accs)
             Joined(o, a) ==
                 [dept_id |-> r.dept_id, account_id |-> r.account_id,
                  actual |-> r.actual, budget |-> r.budget,
                  dept_name |-> o.dept_name, function |-> o.function,
                  cost_center |-> o.cost_center,
                  account_name |-> a.account_name,
                  account_type |-> a.account_type,
                  rollup_group |-> a.rollup_group]
         IN  [k \in 1..(Len(orgs) * n) |->
                 Joined(orgs[((k - 1) \div n) + 1], accs[((k - 1) % n) + 1])]
             \o JoinDimensions(Tail(rows), org, accounts)

\* Lines 115-117: variance and its percentage of the budget (of 1 when the
\* budget is 0), in hundredths of a percent.
WithVariance(r) ==
    [dept_id |-> r.dept_id, account_id |-> r.account_id,
     actual |-> r.actual, budget |-> r.budget,
     dept_name |-> r.dept_name, function |-> r.function,
     cost_center |-> r.cost_center, account_name |-> r.account_name,
     account_type |-> r.account_type, rollup_group |-> r.rollup_group,
     variance |-> r.actual - r.budget,
     variance_pct |-> IF r.budget = 0 THEN (r.actual - r.budget) * 100
                      ELSE RoundDiv((r.actual - r.budget) * 10000,
                                    IF r.budget > 0 THEN r.budget ELSE 0 - r.budget)
                           * (IF r.budget > 0 THEN 1 ELSE 0 - 1)]

Magnitude(x) == IF x >= 0 THEN x ELSE 0 - x

\* Lines 154-156: the first row of the largest |variance| among the rows
\* whose variance has the sign (-1 or 1); no row when there is none.
Largest(rows, sign) ==
    LET at == {k \in 1..Len(rows) : rows[k].variance * sign > 0}
        best == CHOOSE k \in at :
                   \A j \in at :
                      \/ Magnitude(rows[k].variance) > Magnitude(rows[j].variance)
                      \/ /\ Magnitude(rows[k].variance) = Magnitude(rows[j].variance)
                         /\ k <= j
    IN  IF at = {} THEN <<>> ELSE <<rows[best]>>

\* Lines 143-211: the summary and the returned dict.
VarianceResult(rows, quarter, version_) ==
    LET n == Len(rows)
        total_actual == SumSeq([k \in 1..n |-> rows[k].actual])
        total_budget == SumSeq([k \in 1..n |-> rows[k].budget])
        total_variance == total_actual - total_budget
        total_pct == IF total_budget = 0 THEN 0
                     ELSE RoundDiv(total_variance * 10000, Magnitude(total_budget))
                          * (IF total_budget > 0 THEN 1 ELSE 0 - 1)
        Count(Of(_)) == Cardinality({k \in 1..n : Of(rows[k])})
        favorable == Count(LAMBDA r : r.variance < 0)
        unfavorable == Count(LAMBDA r : r.variance > 0)
        on_budget == Count(LAMBDA r : r.variance = 0)
        overall == IF total_variance < 0 THEN "Under budget (favorable)"
                   ELSE IF total_variance > 0 THEN "Over budget (unfavorable)"
                   ELSE "On budget"
    IN  [rows |-> rows,
         summary |-> [fiscal_quarter |-> quarter, budget_version |-> version_,
                      total_rows |-> n, total_actual |-> total_actual,
                      total_budget |-> total_budget,
                      total_variance |-> total_variance,
                      total_variance_pct |-> total_pct,
                      favorable_count |-> favorable,
                      unfavorable_count |-> unfavorable,
                      on_budget_count |-> on_budget, currency |-> "USD"],
         summary_text |->
            [heading |-> <<quarter, version_>>,
             totals |-> <<total_actual, total_budget, total_variance, total_pct>>,
             overall |-> overall,
             breakdown |-> <<favorable, unfavorable, on_budget>>,
             largest_unfavorable |-> Largest(rows, 1),
             largest_favorable |-> Largest(rows, 0 - 1)]]

\* Lines 25-38 and 64-76: the report without rows.
EmptyVarianceResult(quarter, version_, text) ==
    [rows |-> <<>>,
     summary |-> [fiscal_quarter |-> quarter, budget_version |-> version_,
                  total_rows |-> 0, total_actual |-> 0, total_budget |-> 0,
                  total_variance |-> 0, currency |-> "USD"],
     summary_text |-> text]

\* variance_report as a function of its arguments.
VarianceReport(d, quarter, version_) ==
    LET actuals_df == Get(d, "fact_gl_actuals_monthly")
        budget_df == Get(d, "fact_budget_monthly")
        time == Get(d, "dim_time")
        actuals == RowsOfQuarter(actuals_df, time, quarter)
        budget == RowsOfQuarter(RowsOfVersion(budget_df, version_), time, quarter)
        joined == JoinDimensions(MergeAggregates(actuals, budget),
                                 Get(d, "dim_org"), Get(d, "dim_account"))
    IN  IF Empty(actuals_df) \/ Empty(budget_df)
        THEN EmptyVarianceResult(quarter, version_, "No data available")
        ELSE IF Empty(time)
        THEN EmptyVarianceResult(quarter, version_, "Could not map months to quarters")
        ELSE VarianceResult([k \in 1..Len(joined) |-> WithVariance(joined[k])],
                            quarter, version_)

\* Actuals and budgets of two departments and two accounts in two quarters
\* and two budget versions.
ActualRows ==
    {[fiscal_month |-> <<2024, 1>>, dept_id |-> "D1", account_id |-> "A1",
      amount_base |-> 30],
     [fiscal_month |-> <<2024, 2>>, dept_id |-> "D1", account_id |-> "A1",
      amount_base |-> 20],
     [fiscal_month |-> <<2024, 1>>, dept_id |-> "D2", account_id |-> "A1",
      amount_base |-> 10],
     [fiscal_month |-> <<2024, 4>>, dept_id |-> "D1", account_id |-> "A2",
      amount_base |-> 10]}

BudgetRows ==
    {[fiscal_month |-> <<2024, 1>>, dept_id |-> "D1", account_id |-> "A1",
      amount_base |-> 30, version |-> "v1"],
     [fiscal_month |-> <<2024, 2>>, dept_id |-> "D2", account_id |-> "A2",
      amount_base |-> 20, version |-> "v1"],
     [fiscal_month |-> <<2024, 1>>, dept_id |-> "D1", account_id |-> "A1",
      amount_base |-> 50, version |-> "v2"],
     [fiscal_month |-> <<2024, 4>>, dept_id |-> "D1", account_id |-> "A2",
      amount_base |-> 10, version |-> "v1"]}

\* dim_time holds more than one row of a month.
TimeStandard ==
    Table(<<[fiscal_month |-> <<2024, 1>>, fiscal_quarter |-> "Q1"],
            [fiscal_month |-> <<2024, 1>>, fiscal_quarter |-> "Q1"],
            [fiscal_month |-> <<2024, 2>>, fiscal_quarter |-> "Q1"],
            [fiscal_month |-> <<2024, 4>>, fiscal_quarter |-> "Q2"]>>)

\* dim_org and dim_account know one department and one account.
OrgStandard ==
    Table(<<[dept_id |-> "D1", dept_name |-> "Platform",
             function |-> "Engineering", cost_center |-> "CC1"]>>)

AccountStandard ==
    Table(<<[account_id |-> "A1", account_name |-> "Salaries",
             account_type |-> "Opex", rollup_group |-> "People"]>>)

VarianceMapping(actualT, budgetT, timeT, orgT, accountT) ==
    [fact_gl_actuals_monthly |-> actualT, fact_budget_monthly |-> budgetT,
     dim_time |-> timeT, dim_org |-> orgT, dim_account |-> accountT]

VarianceInputs ==
    {VarianceMapping(Table(a), Table(b), t, dims[1], dims[2]) :
        a \in SeqsUpTo(ActualRows, MaxRows), b \in SeqsUpTo(BudgetRows, MaxRows),
        t \in {MissingTable, TimeStandard},
        dims \in {<<MissingTable, MissingTable>>, <<OrgStandard, AccountStandard>>}}

InitVariance ==
    /\ var_dfs \in VarianceInputs
    /\ fiscal_quarter \in {"Q1", "Q2"}
    /\ budget_version \in {"v1", "v2"}
    /\ var_pc = "start"
    /\ var_return = <<>>
    /\ BurnOff
    /\ WrapperOff
    /\ DriverOff
    /\ ToolOff
    /\ SlideOff
    /\ dfs = LoadAllTables(NoDb)
    /\ delay_capex_days = 0
    /\ pc = "done"
    /\ latest_date = NoDate
    /\ current_cash = 0
    /\ three_months_ago = NoDate
    /\ monthly_burn = 0
    /\ capex_df = <<>>
    /\ capex_by_month = NoDict
    /\ projection = <<>>
    /\ cash = 0
    /\ current_month = NoDate
    /\ runway_months = 0
    /\ i = 0
    /\ result = NoResult

\* Lines 25-38: no actuals or no budget.
VarianceNoData ==
    /\ var_pc = "start"
    /\ \/ Empty(Get(var_dfs, "fact_gl_actuals_monthly"))
       \/ Empty(Get(var_dfs, "fact_budget_monthly"))
    /\ var_return' = VarianceReport(var_dfs, fiscal_quarter, budget_version)
    /\ var_pc' = "done"
    /\ UNCHANGED <<var_dfs, fiscal_quarter, budget_version, burn, wrapper>>
    /\ UNCHANGED <<runway, tool, slide, driver>>

\* Lines 40-76: dim_time has no rows: no month maps to a quarter.
VarianceNoMapping ==
    /\ var_pc = "start"
    /\ ~Empty(Get(var_dfs, "fact_gl_actuals_monthly"))
    /\ ~Empty(Get(var_dfs, "fact_budget_monthly"))
    /\ Empty(Get(var_dfs, "dim_time"))
    /\ var_return' = VarianceReport(var_dfs, fiscal_quarter, budget_version)
    /\ var_pc' = "done"
    /\ UNCHANGED <<var_dfs, fiscal_quarter, budget_version, burn, wrapper>>
    /\ UNCHANGED <<runway, tool, slide, driver>>

\* Lines 40-211: the report of the quarter.
VarianceRows ==
    /\ var_pc = "start"
    /\ ~Empty(Get(var_dfs, "fact_gl_actuals_monthly"))
    /\ ~Empty(Get(var_dfs, "fact_budget_monthly"))
    /\ ~Empty(Get(var_dfs, "dim_time"))
    /\ var_return' = VarianceReport(var_dfs, fiscal_quarter, budget_version)
    /\ var_pc' = "done"
    /\ UNCHANGED <<var_dfs, fiscal_quarter, budget_version, burn, wrapper>>
    /\ UNCHANGED <<runway, tool, slide, driver>>

NextVariance ==
    \/ VarianceNoData
    \/ VarianceNoMapping
    \/ VarianceRows

SpecVariance == InitVariance /\ [][NextVariance]_vars

\* ----------------------------------------------- cloud_marketing_breakdown
\* Lines 26 and 57: the rows of the month.
SpendOfMonth(df, month) == SelectSeq(df, LAMBDA r : r.fiscal_month = month)

\* The sum of amount over the rows that have the values of a key in the
\* columns.
SpendSum(rows, columns, key) ==
    LET Mine(r) == \A c \in 1..Len(columns) : r[columns[c]] = key[c]
        mine == SelectSeq(rows, Mine)
    IN  SumSeq([k \in 1..Len(mine) |-> mine[k].amount])

\* groupby(columns, as_index=False)['amount'].sum()
SpendBy(rows, columns) ==
    LET keys == SortTuples({[c \in 1..Len(columns) |-> rows[k][columns[c]]] :
                               k \in 1..Len(rows)})
    IN  [k \in 1..Len(keys) |-> <<keys[k], SpendSum(rows, columns, keys[k])>>]

\* Lines 30-51: the cloud costs by provider, service and environment.
CloudCosts(rows) ==
    LET groups == SpendBy(rows, <<"provider", "service", "env">>)
    IN  [k \in 1..Len(groups) |->
            [provider |-> groups[k][1][1], service |-> groups[k][1][2],
             env |-> groups[k][1][3], amount |-> groups[k][2]]]

\* Lines 61-82: the marketing spend by channel and campaign.
MarketingSpend(rows) ==
    LET groups == SpendBy(rows, <<"channel", "campaign_id">>)
    IN  [k \in 1..Len(groups) |->
            [channel |-> groups[k][1][1], campaign_id |-> groups[k][1][2],
             amount |-> groups[k][2]]]

\* Lines 94-108: the name (in the column) of the largest total among the
\* entries, the first one met among equals; no name without entries.
TopOf(entries, column) ==
    LET n == Len(entries)
        Total(k) == SumSeq([j \in 1..n |->
                       IF entries[j][column] = entries[k][column]
                       THEN entries[j].amount ELSE 0])
        best == CHOOSE k \in 1..n :
                   \A j \in 1..n : Total(k) > Total(j) \/ (Total(k) = Total(j) /\ k <= j)
    IN  IF n = 0 THEN [name |-> None, amount |-> 0]
        ELSE [name |-> Text(entries[best][column]), amount |-> Total(best)]

\* Lines 16-155: cloud_marketing_breakdown as a function of its arguments.
CloudMarketingBreakdown(d, month) ==
    LET cloud_month == SpendOfMonth(Get(d, "fact_it_cloud_costs"), month)
        marketing_month == SpendOfMonth(Get(d, "fact_marketing_spend_detail"), month)
        cloud_costs == CloudCosts(cloud_month)
        marketing_spend == MarketingSpend(marketing_month)
        total_cloud == SumSeq([k \in 1..Len(cloud_month) |-> cloud_month[k].amount])
        total_marketing ==
            SumSeq([k \in 1..Len(marketing_month) |-> marketing_month[k].amount])
        top_provider == TopOf(cloud_costs, "provider")
        top_channel == TopOf(marketing_spend, "channel")
    IN  [cloud_costs |-> cloud_costs, marketing_spend |-> marketing_spend,
         total_cloud |-> total_cloud, total_marketing |-> total_marketing,
         summary |-> [month |-> month,
                      total_spend |-> total_cloud + total_marketing,
                      cloud_entries |-> Len(cloud_costs),
                      marketing_entries |-> Len(marketing_spend),
                      top_cloud_provider |-> top_provider.name,
                      top_cloud_provider_amount |-> top_provider.amount,
                      top_marketing_channel |-> top_channel.name,
                      top_marketing_channel_amount |-> top_channel.amount,
                      currency |-> "USD"],
         summary_text |-> [month |-> month,
                           cloud |-> IF total_cloud > 0
                                     THEN <<total_cloud, Len(cloud_costs)>> ELSE <<>>,
                           marketing |-> IF total_marketing > 0
                                         THEN <<total_marketing, Len(marketing_spend)>>
                                         ELSE <<>>,
                           combined |-> IF total_cloud + total_marketing > 0
                                        THEN <<total_cloud + total_marketing>>
                                        ELSE <<>>]]

\* ------------------ variance_tool, cloud_marketing_tool and slides_tool
Wrappers == {"variance_tool", "cloud_marketing_tool", "slides_tool"}

\* The tables the three analytics functions read.
ReportTableNames ==
    {"fact_gl_actuals_monthly", "fact_budget_monthly", "dim_time", "dim_org",
     "dim_account", "fact_it_cloud_costs", "fact_marketing_spend_detail",
     "kpi_monthly", "kpi_definitions", "metric_targets", "commentary_library"}

\* load_all_tables, for the tables of the reports.
LoadReportTables(database) ==
    [t \in ReportTableNames |->
        IF t \in DOMAIN database THEN Table(database[t]) ELSE MissingTable]

\* A database with rows in every table; one without KPI values, budget and
\* cloud costs; one without dim_time, with a KPI table without rows.
WrapDbFull ==
    [fact_gl_actuals_monthly |->
        <<[fiscal_month |-> <<2024, 1>>, dept_id |-> "D1", account_id |-> "A1",
           amount_base |-> 30],
          [fiscal_month |-> <<2024, 1>>, dept_id |-> "D2", account_id |-> "A1",
           amount_base |-> 10]>>,
     fact_budget_monthly |->
        <<[fiscal_month |-> <<2024, 1>>, dept_id |-> "D1", account_id |-> "A1",
           amount_base |-> 50, version |-> "v1"],
          [fiscal_month |-> <<2024, 2>>, dept_id |-> "D2", account_id |-> "A2",
           amount_base |-> 20, version |-> "v1"]>>,
     dim_time |-> TimeStandard.rows,
     dim_org |-> OrgStandard.rows,
     dim_account |-> AccountStandard.rows,
     fact_it_cloud_costs |->
        <<[fiscal_month |-> <<2024, 1>>, provider |-> "gcp", service |-> "compute",
           env |-> "prod", amount |-> 40],
          [fiscal_month |-> <<2024, 1>>, provider |-> "aws", service |-> "storage",
           env |-> "prod", amount |-> 25],
          [fiscal_month |-> <<2024, 1>>, provider |-> "aws", service |-> "compute",
           env |-> "prod", amount |-> 20]>>,
     fact_marketing_spend_detail |->
        <<[fiscal_month |-> <<2024, 1>>, channel |-> "social",
           campaign_id |-> "C1", amount |-> 15],
          [fiscal_month |-> <<2024, 1>>, channel |-> "social",
           campaign_id |-> "C1", amount |-> 5],
          [fiscal_month |-> <<2024, 2>>, channel |-> "search",
           campaign_id |-> "C2", amount |-> 60]>>,
     kpi_monthly |->
        <<[fiscal_month |-> <<2024, 1>>, kpi_id |-> "K1", value |-> Num(90)]>>,
     kpi_definitions |-> <<[kpi_id |-> "K1", name |-> Text("Revenue")]>>,
     metric_targets |->
        <<TargetRow(<<2024, 1>>, "K1", Num(100), Text("green<5"))>>,
     commentary_library |-> <<[text_md |-> Text("Strong quarter.")]>>]

WrapDbs ==
    {WrapDbFull,
     [t \in DOMAIN WrapDbFull \ {"kpi_monthly", "fact_budget_monthly",
                                 "fact_it_cloud_costs"} |-> WrapDbFull[t]],
     [t \in DOMAIN WrapDbFull \ {"dim_time"} |->
        IF t = "kpi_monthly" THEN <<>> ELSE WrapDbFull[t]]}

\* The argument dicts: each required argument is absent, empty or given.
WrapArgs(name) ==
    IF name = "variance_tool"
    THEN {NoArgs} \cup {[fiscal_quarter |-> q] : q \in {"", "Q1"}}
         \cup {[budget_version |-> v] : v \in {"", "v1"}}
         \cup {[fiscal_quarter |-> q, budget_version |-> v] :
                  q \in {"", "Q1"}, v \in {"", "v1"}}
    ELSE {NoArgs} \cup {[month |-> m] : m \in {<<>>, <<2024, 1>>, <<2024, 2>>}}

\* args.get(key) is None, '' or another false value: the argument of a
\* string is absent or empty.
NoText(a, key) == IF key \in DOMAIN a THEN a[key] = "" ELSE TRUE

\* The same for the month, a string of the form YYYY-MM.
NoMonth(a) == IF "month" \in DOMAIN a THEN a.month = <<>> ELSE TRUE

\* The guard of the wrapper: variance_tool.py line 19,
\* cloud_marketing_tool.py line 18, slides_tool.py line 18.
ArgumentMissing(name, a) ==
    IF name = "variance_tool"
    THEN NoText(a, "fiscal_quarter") \/ NoText(a, "budget_version")
    ELSE NoMonth(a)

\* The error dict of the wrapper.
ErrorOf(name) ==
    IF name = "variance_tool"
    THEN [error |-> "fiscal_quarter and budget_version are required"]
    ELSE [error |-> "month is required (format: 'YYYY-MM')"]

InitWrappers ==
    /\ wrap_db \in WrapDbs
    /\ wrap_tool \in Wrappers
    /\ wrap_args \in WrapArgs(wrap_tool)
    /\ wrap_pc = "load"
    /\ wrap_dfs = <<>>
    /\ wrap_calls = 0
    /\ wrap_inner = <<>>
    /\ wrap_return = <<>>
    /\ BurnOff
    /\ VarianceOff
    /\ DriverOff
    /\ ToolOff
    /\ SlideOff
    /\ dfs = LoadAllTables(NoDb)
    /\ delay_capex_days = 0
    /\ pc = "done"
    /\ latest_date = NoDate
    /\ current_cash = 0
    /\ three_months_ago = NoDate
    /\ monthly_burn = 0
    /\ capex_df = <<>>
    /\ capex_by_month = NoDict
    /\ projection = <<>>
    /\ cash = 0
    /\ current_month = NoDate
    /\ runway_months = 0
    /\ i = 0
    /\ result = NoResult

\* Line 15 of each wrapper: dfs = load_all_tables()
WrapLoad ==
    /\ wrap_pc = "load"
    /\ wrap_dfs' = LoadReportTables(wrap_db)
    /\ wrap_pc' = "guard"
    /\ UNCHANGED <<wrap_db, wrap_tool, wrap_args, wrap_calls, wrap_inner,
                   wrap_return>>
    /\ UNCHANGED <<runway, tool, slide, driver, burn, variance>>

\* Lines 16-20 (variance_tool), 16-19 (the other two): a required argument
\* is missing: the error dict is returned.
WrapReject ==
    /\ wrap_pc = "guard"
    /\ ArgumentMissing(wrap_tool, wrap_args)
    /\ wrap_return' = [raised |-> "", value |-> ErrorOf(wrap_tool)]
    /\ wrap_pc' = "returned"
    /\ UNCHANGED <<wrap_db, wrap_tool, wrap_args, wrap_dfs, wrap_calls,
                   wrap_inner>>
    /\ UNCHANGED <<runway, tool, slide, driver, burn, variance>>

\* variance_tool.py line 22: variance_report is entered.
WrapCallVariance ==
    /\ wrap_pc = "guard"
    /\ wrap_tool = "variance_tool"
    /\ ~ArgumentMissing(wrap_tool, wrap_args)
    /\ var_dfs' = wrap_dfs
    /\ fiscal_quarter' = wrap_args.fiscal_quarter
    /\ budget_version' = wrap_args.budget_version
    /\ var_pc' = "start"
    /\ var_return' = <<>>
    /\ wrap_calls' = wrap_calls + 1
    /\ wrap_pc' = "running"
    /\ UNCHANGED <<wrap_db, wrap_tool, wrap_args, wrap_dfs, wrap_inner,
                   wrap_return>>
    /\ UNCHANGED <<runway, tool, slide, driver, burn>>

\* variance_report has returned.
WrapVarianceDone ==
    /\ wrap_pc = "running"
    /\ wrap_tool = "variance_tool"
    /\ var_pc = "done"
    /\ wrap_inner' = [raised |-> "", value |-> var_return]
    /\ wrap_pc' = "called"
    /\ UNCHANGED <<wrap_db, wrap_tool, wrap_args, wrap_dfs, wrap_calls,
                   wrap_return>>
    /\ UNCHANGED <<runway, tool, slide, driver, burn, variance>>

\* cloud_marketing_tool.py line 21: cloud_marketing_breakdown is called and
\* returns.
WrapCallCloudMarketing ==
    /\ wrap_pc = "guard"
    /\ wrap_tool = "cloud_marketing_tool"
    /\ ~ArgumentMissing(wrap_tool, wrap_args)
    /\ wrap_inner' = [raised |-> "",
                      value |-> CloudMarketingBreakdown(wrap_dfs, wrap_args.month)]
    /\ wrap_calls' = wrap_calls + 1
    /\ wrap_pc' = "called"
    /\ UNCHANGED <<wrap_db, wrap_tool, wrap_args, wrap_dfs, wrap_return>>
    /\ UNCHANGED <<runway, tool, slide, driver, burn, variance>>

\* slides_tool.py line 21: generate_kpi_slide is entered with a new frame.
WrapCallSlides ==
    /\ wrap_pc = "guard"
    /\ wrap_tool = "slides_tool"
    /\ ~ArgumentMissing(wrap_tool, wrap_args)
    /\ slide_dfs' = wrap_dfs
    /\ slide_month' = wrap_args.month
    /\ slide_pc' = "start"
    /\ kpi_records' = <<>>
    /\ kpi_done' = 0
    /\ counts' = Unbound
    /\ slide_result' = <<>>
    /\ summary_parts' = <<>>
    /\ slide_return' = NoSlide
    /\ wrap_calls' = wrap_calls + 1
    /\ wrap_pc' = "running"
    /\ UNCHANGED <<wrap_db, wrap_tool, wrap_args, wrap_dfs, wrap_inner,
                   wrap_return>>
    /\ UNCHANGED <<runway, tool, driver, burn, variance>>

\* generate_kpi_slide has returned, or an exception has left it.
WrapSlidesDone ==
    /\ wrap_pc = "running"
    /\ wrap_tool = "slides_tool"
    /\ slide_pc \in {"done", "raised"}
    /\ wrap_inner' = slide_return
    /\ wrap_pc' = "called"
    /\ UNCHANGED <<wrap_db, wrap_tool, wrap_args, wrap_dfs, wrap_calls,
                   wrap_return>>
    /\ UNCHANGED <<runway, tool, slide, driver, burn, variance>>

\* Lines 21-23: result = <the call>; return result
WrapReturn ==
    /\ wrap_pc = "called"
    /\ wrap_inner.raised = ""
    /\ wrap_return' = wrap_inner
    /\ wrap_pc' = "returned"
    /\ UNCHANGED <<wrap_db, wrap_tool, wrap_args, wrap_dfs, wrap_calls,
                   wrap_inner>>
    /\ UNCHANGED <<runway, tool, slide, driver, burn, variance>>

\* The wrapper has no handler: an exception of the call leaves the wrapper.
WrapPropagate ==
    /\ wrap_pc = "called"
    /\ wrap_inner.raised # ""
    /\ wrap_return' = wrap_inner
    /\ wrap_pc' = "raised"
    /\ UNCHANGED <<wrap_db, wrap_tool, wrap_args, wrap_dfs, wrap_calls,
                   wrap_inner>>
    /\ UNCHANGED <<runway, tool, slide, driver, burn, variance>>

NextWrappers ==
    \/ WrapLoad
    \/ WrapReject
    \/ WrapCallVariance
    \/ VarianceNoData
    \/ VarianceNoMapping
    \/ VarianceRows
    \/ WrapVarianceDone
    \/ WrapCallCloudMarketing
    \/ WrapCallSlides
    \/ SkipKpis
    \/ SelectKpis
    \/ ClassifyKpi
    \/ StoreKpis
    \/ WriteNarrative
    \/ WriteSummary
    \/ ReturnSlide
    \/ RaiseUnbound
    \/ WrapSlidesDone
    \/ WrapReturn
    \/ WrapPropagate

SpecWrappers == InitWrappers /\ [][NextWrappers]_vars

\* =============================================================== claims
CashEmpty == Empty(Get(dfs, "fact_cash_balance_daily"))

\* The projection has been prepared: the CapEx dict and the loop locals are set.
Projecting == pc \in {"loop", "return"} \/ (pc = "done" /\ monthly_burn # 0)

\* The burn rate is complete: all four sources have been added.
BurnKnown == ~CashEmpty /\ pc \in {"check", "loop", "return", "done"}

\* ceil(a / b) for b > 0
CeilDiv(a, b) == (a + b - 1) \div b

\* A 'YYYY-MM' label as a count of months.
LabelIndex(l) == l[1] * 12 + l[2]

\* No CapEx falls in any projected month.
NoCapexProjected ==
    \A k \in 1..Len(projection) : CapexFor(capex_by_month, projection[k].month) = 0

\* ---- C1
\* C1 as stated: when monthly_burn is positive and no CapEx falls in a
\* projected month, runway_months = ceil(current_cash / monthly_burn) for
\* every current_cash.
C1_RunwayIsCeil ==
    (pc = "done" /\ monthly_burn > 0 /\ NoCapexProjected)
        => result.runway_months = Fin(CeilDiv(current_cash, monthly_burn))

\* C1 as amended: when monthly_burn is positive and no CapEx falls in a
\* projected month, runway_months is ceil(current_cash / monthly_burn) kept
\* within 1..60: 1 when current_cash <= 0, 60 when the quotient exceeds 60.
C1_RunwayIsClampedCeil ==
    (pc = "done" /\ monthly_burn > 0 /\ NoCapexProjected)
        => result.runway_months =
             Fin(Min(60, Max(1, CeilDiv(current_cash, monthly_burn))))

\* A CapEx-free run that ends strictly inside the horizon although CapEx is
\* scheduled (outside the projected months).
C1_Witness ==
    /\ pc = "done" /\ monthly_burn > 0 /\ NoCapexProjected
    /\ DOMAIN capex_by_month # {}
    /\ CeilDiv(current_cash, monthly_burn) \in 2..59
    /\ result.runway_months = Fin(CeilDiv(current_cash, monthly_burn))

\* ---- C2
\* C2: every row of the GL, cloud and marketing tables that is counted in
\* monthly_burn has its fiscal_month among the 3 calendar months that end at
\* the month of latest_date.
C2_WindowIsThreeMonths ==
    BurnKnown =>
        LET last == LabelIndex(Strftime(latest_date))
            InThree(rows) ==
                \A k \in 1..Len(rows) :
                    LabelIndex(rows[k].fiscal_month) \in (last - 2)..last
        IN  /\ InThree(OpexRows(Get(dfs, "fact_gl_actuals_monthly"),
                                Get(dfs, "dim_account"), three_months_ago, latest_date))
            /\ InThree(MonthlyRows(Get(dfs, "fact_it_cloud_costs"),
                                   three_months_ago, latest_date))
            /\ InThree(MonthlyRows(Get(dfs, "fact_marketing_spend_detail"),
                                   three_months_ago, latest_date))

\* ---- C3
\* C3: no step of calculate_runway changes any table of the input mapping.
C3_InputsUnchanged == [][dfs' = dfs]_vars

\* ---- C4
\* The cash after k simulated months, from the recurrence of the spec:
\* current_cash less k months of burn and the CapEx of those months.
RECURSIVE SimCash(_)
SimCash(k) ==
    IF k = 0 THEN current_cash
    ELSE SimCash(k - 1) - monthly_burn
           - CapexFor(capex_by_month, MonthAt(latest_date, k))

\* C4: if monthly_burn is non-zero and the simulated cash is strictly positive
\* after each of the 60 months, the projection has exactly 60 entries and
\* runway_months is 60.
C4_SixtyMonthCap ==
    (pc = "done" /\ ~CashEmpty /\ monthly_burn # 0
        /\ \A k \in 1..60 : SimCash(k) > 0)
        => Len(result.projection) = 60 /\ result.runway_months = Fin(60)

\* A run that reaches the horizon with cash left, CapEx paid on the way.
C4_Witness ==
    /\ pc = "done" /\ ~CashEmpty /\ monthly_burn > 0
    /\ \A k \in 1..60 : SimCash(k) > 0
    /\ \E k \in 1..Len(result.projection) : result.projection[k].capex > 0
    /\ Len(result.projection) = 60

\* ---- C5
RECURSIVE SumValues(_, _)
SumValues(f, S) ==
    IF S = {} THEN 0
    ELSE LET m == CHOOSE x \in S : TRUE IN f[m] + SumValues(f, S \ {m})

\* C5: for every schedule and delay, the values of the month -> amount dict
\* add up to the sum of planned_amount over the schedule, and the delayed
\* copy keeps every row's amount.
C5_CapexTotalPreserved ==
    Projecting =>
        LET schedule == Get(dfs, "fact_capex_schedule")
        IN  /\ SumValues(capex_by_month, DOMAIN capex_by_month)
                 = Scale * ColSum(schedule, "planned_amount")
            /\ Len(capex_df) = Len(schedule)
            /\ \A k \in 1..Len(schedule) :
                 capex_df[k].planned_amount = schedule[k].planned_amount

\* A delay that merges two rows planned for different months into one bucket.
C5_Witness ==
    /\ Projecting /\ delay_capex_days > 0
    /\ LET schedule == Get(dfs, "fact_capex_schedule")
       IN  /\ Len(schedule) = 2
           /\ schedule[1].planned_month # schedule[2].planned_month
           /\ Cardinality(DOMAIN capex_by_month) = 1

\* ---- C6
\* C6: with a non-empty cash table, a burn of exactly 0 and positive cash, the
\* result has runway_months = +infinity, monthly_burn = 0 and no projection,
\* whatever the CapEx schedule and the delay.
C6_NoBurnPositiveCash ==
    (pc = "done" /\ ~CashEmpty /\ monthly_burn = 0 /\ current_cash > 0)
        => /\ result.runway_months = Inf
           /\ result.monthly_burn = 0
           /\ result.projection = <<>>

\* Zero burn and positive cash with CapEx scheduled and a positive delay.
C6_Witness ==
    /\ pc = "done" /\ ~CashEmpty /\ monthly_burn = 0 /\ current_cash > 0
    /\ ~Empty(Get(dfs, "fact_capex_schedule")) /\ delay_capex_days > 0
    /\ result.runway_months = Inf

\* ---- C7
\* C7: with a non-empty cash table, a burn of exactly 0 and current_cash <= 0,
\* the result has runway_months = 0.0 and no projection.
C7_NoBurnNoCash ==
    (pc = "done" /\ ~CashEmpty /\ monthly_burn = 0 /\ current_cash <= 0)
        => result.runway_months = Fin(0) /\ result.projection = <<>>

\* Zero burn with a cash balance of exactly zero.
C7_Witness ==
    /\ pc = "done" /\ ~CashEmpty /\ monthly_burn = 0 /\ current_cash = 0
    /\ result.runway_months = Fin(0)

\* ---- C8
\* C8: when the cash table is missing or has no rows, the result is exactly
\* {current_cash: 0.0, monthly_burn: 0.0, runway_months: 0.0, projection: []}
\* whatever the other tables and the delay are, and nothing else is computed.
C8_EmptyCashResult ==
    (pc = "done" /\ CashEmpty)
        => /\ result = [current_cash |-> 0, monthly_burn |-> 0,
                        runway_months |-> Fin(0), projection |-> <<>>]
           /\ latest_date = NoDate /\ projection = <<>>

\* The early return with a missing cash table, CapEx scheduled, marketing
\* spend present and a positive delay.
C8_Witness ==
    /\ pc = "done" /\ ~dfs.fact_cash_balance_daily.present
    /\ ~Empty(Get(dfs, "fact_capex_schedule"))
    /\ ~Empty(Get(dfs, "fact_marketing_spend_detail"))
    /\ delay_capex_days > 0

\* ---- C9
\* C9: when dim_account is missing or empty, the Opex component is 0 whatever
\* the GL holds: the burn is 0 after the Opex step, and the complete burn is
\* the sum of the payroll, cloud and marketing components alone.
C9_NoDimNoOpex ==
    Empty(Get(dfs, "dim_account")) =>
        /\ pc = "payroll" => monthly_burn = 0
        /\ BurnKnown =>
             monthly_burn =
                 PayrollTotal(PayrollRows(Get(dfs, "fact_payroll_runs"),
                                          three_months_ago, latest_date))
               + ColSum(MonthlyRows(Get(dfs, "fact_it_cloud_costs"),
                                    three_months_ago, latest_date), "amount")
               + ColSum(MonthlyRows(Get(dfs, "fact_marketing_spend_detail"),
                                    three_months_ago, latest_date), "amount")

\* No dim_account, a GL row of the latest month, and payroll and cloud costs
\* that make up the burn.
C9_Witness ==
    /\ ~dfs.dim_account.present /\ BurnKnown
    /\ \E k \in 1..Len(Get(dfs, "fact_gl_actuals_monthly")) :
         Get(dfs, "fact_gl_actuals_monthly")[k].fiscal_month = Strftime(latest_date)
    /\ PayrollRows(Get(dfs, "fact_payroll_runs"), three_months_ago, latest_date) # <<>>
    /\ MonthlyRows(Get(dfs, "fact_it_cloud_costs"), three_months_ago, latest_date) # <<>>
    /\ monthly_burn = 130

\* ---- C10
\* C10: in the worked scenario the result has current_cash 300000.00,
\* monthly_burn 30000.00, a first snapshot for 2024-04 with cash 270000.00,
\* burn 30000.00, capex 0.00 and total_outflow 30000.00, a 10th and last
\* snapshot with cash 0.00, and runway_months 10 (amounts in cents).
C10_Scenario ==
    (pc = "done" /\ dfs = Scenario /\ delay_capex_days = 0)
        => /\ result.current_cash = 30000000
           /\ result.monthly_burn = 3000000
           /\ result.runway_months = Fin(10)
           /\ Len(result.projection) = 10
           /\ result.projection[1] =
                [month |-> <<2024, 4>>, cash |-> 27000000, burn |-> 3000000,
                 capex |-> 0, total_outflow |-> 3000000]
           /\ result.projection[10].cash = 0

\* The scenario has run to its return.
C10_Witness ==
    /\ pc = "done" /\ dfs = Scenario /\ delay_capex_days = 0
    /\ Len(result.projection) = 10

\* ---- C11
\* C11: every call terminates and returns a record with exactly the fields
\* current_cash, monthly_burn, runway_months and projection, whose projection
\* has at most 60 entries.
C11_TerminatesBounded ==
    <>(/\ pc = "done"
       /\ DOMAIN result = {"current_cash", "monthly_burn", "runway_months", "projection"}
       /\ Len(result.projection) <= 60)

\* A call with the delay of the test suite has returned a full projection.
C11_Witness ==
    /\ pc = "done" /\ delay_capex_days = 90
    /\ ~Empty(Get(dfs, "fact_capex_schedule"))
    /\ Len(result.projection) = 60

\* ---- C12
\* C12: current_cash is the sum of ending_cash over exactly the rows whose
\* date is the maximum date of the cash table: every account of that day is
\* added, no row of an earlier day is.
C12_CashOnLatestDate ==
    (~CashEmpty /\ pc # "start") =>
        LET cash_df == Get(dfs, "fact_cash_balance_daily")
            Latest(k) == \A j \in 1..Len(cash_df) :
                            TsLE(cash_df[j].date.date, cash_df[k].date.date)
        IN  current_cash =
              Scale * SumSeq([k \in 1..Len(cash_df) |->
                                IF Latest(k) THEN cash_df[k].ending_cash ELSE 0])

\* An older balance and two accounts on the latest day.
C12_Witness ==
    /\ ~CashEmpty /\ pc = "opex"
    /\ LET cash_df == Get(dfs, "fact_cash_balance_daily")
       IN  /\ Len(cash_df) = 3
           /\ cash_df[1].date.date # latest_date
           /\ cash_df[2].date.date = latest_date
           /\ cash_df[3].date.date = latest_date
           /\ current_cash = Scale * (cash_df[2].ending_cash + cash_df[3].ending_cash)

\* ---- C13
\* C13: a call with a negative delay_capex_days is rejected: it never returns
\* a runway result.
C13_NegativeDelayRejected == ~(pc = "done" /\ delay_capex_days < 0)

\* ---- C14
\* A date as a number that orders dates.
DateKey(t) == (t[1] * 12 + t[2]) * 32 + t[3]

\* The tables of a mapping hold the rows of the database, whatever the form
\* of their date cells, and no other table.
HoldsRowsOf(d, database) ==
    \A t \in TableNames :
        /\ d[t].present = (t \in DOMAIN database)
        /\ t \in DOMAIN database =>
             CASE t = "fact_cash_balance_daily" ->
                     ToDatetime(d[t].rows, "date") = ToDatetime(database[t], "date")
               [] t = "fact_payroll_runs" ->
                     ToDatetime(d[t].rows, "pay_date") = ToDatetime(database[t], "pay_date")
               [] OTHER -> d[t].rows = database[t]

\* The cash of the latest day of a database, in cents; 0 without cash rows.
LatestCashOf(database) ==
    IF "fact_cash_balance_daily" \notin DOMAIN database THEN 0
    ELSE LET rows == database["fact_cash_balance_daily"]
             Latest(k) == \A j \in 1..Len(rows) :
                             DateKey(rows[j].date.date) <= DateKey(rows[k].date.date)
         IN  SumSeq([k \in 1..Len(rows) |->
                       IF Latest(k) THEN rows[k].ending_cash ELSE 0])

\* C14: every invocation of runway_tool loads the tables once, then calls
\* calculate_runway once, on the tables of the database as they are at this
\* invocation and with the delay of its arguments (0 when the key is absent),
\* and returns the result of that call unchanged; nothing of an earlier
\* invocation is used.
C14_ToolLoadsAndCallsOnce ==
    /\ tool_pc = "call" => loads = 1 /\ calls = 0
    /\ tool_pc \in {"running", "returned"} =>
          /\ loads = 1 /\ calls = 1
          /\ delay_capex_days =
                (IF "delay_capex_days" \in DOMAIN args
                 THEN args.delay_capex_days ELSE 0)
          /\ HoldsRowsOf(dfs, db)
    /\ tool_pc = "returned" =>
          /\ pc = "done"
          /\ tool_result = result
          /\ tool_result.current_cash = LatestCashOf(db)

\* A second invocation, without a delay argument, on a database with cash
\* and a burn, has returned a projection.
C14_Witness ==
    /\ tool_pc = "returned" /\ invocations = 2
    /\ args = NoArgs /\ delay_capex_days = 0
    /\ Len(tool_result.projection) > 0
    /\ tool_result = result

\* ---- C15
\* C15: generate_kpi_slide never raises: for every table mapping and month it
\* returns a dict with month, kpis, narrative, key_metrics and a summary
\* block; with kpi_monthly missing or empty, kpis and key_metrics are empty.
C15_SlideAlwaysReturns ==
    /\ slide_pc # "raised"
    /\ slide_pc = "done" =>
          /\ slide_return.raised = ""
          /\ {"month", "kpis", "narrative", "key_metrics", "summary"}
                \subseteq DOMAIN slide_return.value
          /\ Empty(Get(slide_dfs, "kpi_monthly")) =>
                /\ slide_return.value.kpis = <<>>
                /\ slide_return.value.key_metrics = <<>>

\* ---- C16
\* The simulated cash after each of the first n months: SimCash(1..n), built
\* month by month.
RECURSIVE SimTrailFrom(_, _, _)
SimTrailFrom(trail, c, n) ==
    IF Len(trail) >= n THEN trail
    ELSE LET after == c - monthly_burn
                        - CapexFor(capex_by_month,
                                   MonthAt(latest_date, Len(trail) + 1))
         IN  SimTrailFrom(Append(trail, after), after, n)

SimTrail(n) == SimTrailFrom(<<>>, current_cash, n)

\* C16: in every projection the simulated cash is positive after every month
\* but the last, and is <= 0 after the last month unless the projection has
\* 60 entries: nothing is appended after the first month that ends with
\* cash <= 0, a cash of exactly 0 included.  (A snapshot stores that cash
\* rounded to cents.)
C16_StopsAtFirstDepletion ==
    Projecting =>
        LET n == Len(projection)
            sim == SimTrail(n)
        IN  /\ \A k \in 1..(n - 1) : sim[k] > 0
            /\ (pc = "done" /\ n < 60) => sim[n] <= 0
            /\ \A k \in 1..n : projection[k].cash = Round2(sim[k])

\* A run that goes on after a month whose positive cash rounds to 0.00, and
\* stops at the month whose cash is exactly zero.
C16_Witness ==
    /\ pc = "done" /\ monthly_burn # 0
    /\ Len(projection) = 3
    /\ projection[2].cash = 0 /\ SimTrail(3)[2] > 0
    /\ SimTrail(3)[3] = 0

\* ---- C17
\* C17: with a non-empty cash table and a non-zero burn, runway_months is the
\* number of entries of the returned projection, between 1 and 60.
C17_RunwayIsProjectionLength ==
    (pc = "done" /\ ~CashEmpty /\ monthly_burn # 0)
        => /\ result.runway_months = Fin(Len(result.projection))
           /\ Len(result.projection) \in 1..60

\* A run of several months, short of the horizon, that pays CapEx.
C17_Witness ==
    /\ pc = "done" /\ ~CashEmpty /\ monthly_burn # 0
    /\ Len(result.projection) \in 2..59
    /\ \E k \in 1..Len(result.projection) : result.projection[k].capex > 0
    /\ result.runway_months = Fin(Len(result.projection))

\* ---- C18
\* C18: for every entry k, total_outflow is monthly_burn plus the CapEx of
\* month k (0 for a month absent from the dict), cash is the cash of entry
\* k-1 (current_cash for k = 1) less that outflow, and burn is the same
\* monthly_burn in every entry; the entry stores each of them rounded to cents.
C18_SnapshotRecurrence ==
    Projecting =>
        LET sim == SimTrail(Len(projection))
        IN  \A k \in 1..Len(projection) :
              LET month == MonthAt(latest_date, k)
                  capex == IF month \in DOMAIN capex_by_month
                           THEN capex_by_month[month] ELSE 0
                  before == IF k = 1 THEN current_cash ELSE sim[k - 1]
              IN  /\ projection[k].total_outflow = Round2(monthly_burn + capex)
                  /\ projection[k].capex = Round2(capex)
                  /\ projection[k].cash = Round2(before - (monthly_burn + capex))
                  /\ projection[k].burn = Round2(monthly_burn)

\* A projection with a month that pays CapEx and a month that pays none.
C18_Witness ==
    /\ pc = "done" /\ Len(projection) >= 2
    /\ \E k \in 1..Len(projection) : projection[k].capex > 0
    /\ \E k \in 1..Len(projection) :
         /\ projection[k].capex = 0
         /\ projection[k].month \notin DOMAIN capex_by_month

\* ---- C19
\* C19: the first entry is for the calendar month after the month of
\* latest_date and every later entry for the month after the entry before it,
\* December being followed by January of the next year.
C19_ConsecutiveMonths ==
    Projecting =>
        /\ Len(projection) >= 1 =>
             projection[1].month =
                 (IF latest_date[2] = 12 THEN <<latest_date[1] + 1, 1>>
                  ELSE <<latest_date[1], latest_date[2] + 1>>)
        /\ \A k \in 2..Len(projection) :
             LabelIndex(projection[k].month) = LabelIndex(projection[k - 1].month) + 1
        /\ \A k \in 1..Len(projection) : projection[k].month[2] \in 1..12

\* A projection that starts in January after a December balance and crosses
\* the next year end as well.
C19_Witness ==
    /\ pc = "done" /\ latest_date = <<2023, 12, 15>>
    /\ Len(projection) >= 13
    /\ projection[1].month = <<2024, 1>>
    /\ projection[13].month = <<2025, 1>>

\* ---- C20
\* The date 3 calendar months before t, the day clamped to the month's end.
ThreeMonthsBefore(t) ==
    LET label == MonthAt(t, 0 - 3)
    IN  <<label[1], label[2], Min(t[3], DaysInMonth(label[1], label[2]))>>

\* The sum of Val(row) over the rows of df that satisfy In(row).
SumWhere(df, In(_), Val(_)) ==
    SumSeq([k \in 1..Len(df) |-> IF In(df[k]) THEN Val(df[k]) ELSE 0])

ParsedTables(d) ==
    [t \in DOMAIN d |->
        CASE t = "fact_cash_balance_daily" -> ToDatetime(Get(d, t), "date")
          [] t = "fact_payroll_runs" -> ToDatetime(Get(d, t), "pay_date")
          [] OTHER -> Get(d, t)]

\* The latest cash date of a mapping that has cash rows.
LatestIn(d) ==
    LET rows == Get(d, "fact_cash_balance_daily")
    IN  rows[CHOOSE k \in 1..Len(rows) :
                \A j \in 1..Len(rows) :
                    DateKey(rows[j].date.date) <= DateKey(rows[k].date.date)].date.date

\* The component of one source in three times the burn of a mapping: the
\* spend of the source in the window, in cents.
SourceComponent(d, src) ==
    IF Empty(Get(d, "fact_cash_balance_daily")) THEN 0
    ELSE
    LET latest == LatestIn(d)
        last == LabelIndex(Strftime(latest))
        from == ThreeMonthsBefore(latest)
        dim  == Get(d, "dim_account")
        InMonths(r) == LabelIndex(r.fiscal_month) \in (last - 3)..last
        InOpex(r) == /\ InMonths(r)
                     /\ \E k \in 1..Len(dim) :
                           /\ dim[k].account_id = r.account_id
                           /\ dim[k].account_type = "Opex"
        InDates(r) == /\ DateKey(from) <= DateKey(r.pay_date.date)
                      /\ DateKey(r.pay_date.date) <= DateKey(latest)
        Base(r) == r.amount_base
        Pay(r) == r.gross_pay + r.taxes + r.benefits + r.contractor_cost
        Amount(r) == r.amount
    IN  CASE src = "fact_gl_actuals_monthly" -> SumWhere(Get(d, src), InOpex, Base)
          [] src = "fact_payroll_runs" -> SumWhere(Get(d, src), InDates, Pay)
          [] OTHER -> SumWhere(Get(d, src), InMonths, Amount)

\* Mapping b is mapping a with the table of src, which had rows, replaced by
\* an empty or a missing table.
SourceReplaced(a, b, src) ==
    /\ ~Empty(Get(a, src))
    /\ Empty(Get(b, src))
    /\ \A t \in DOMAIN a \ {src} : ParsedTables(a)[t] = ParsedTables(b)[t]

\* C21: when one of the four source tables is replaced by an empty or a
\* missing table, the next call returns (no error), its monthly_burn is lower
\* by exactly the component of that source, and is made of the other three
\* components, which are what they were.
C21_SourcesIndependent ==
    \A a \in 1..Len(history), b \in 1..Len(history), src \in Sources :
        SourceReplaced(history[a].tables, history[b].tables, src) =>
            /\ history[b].burn
                 = history[a].burn - SourceComponent(history[a].tables, src)
            /\ history[b].burn
                 = SumSeq([k \in 1..3 |->
                      LET others == Sources \ {src}
                          pick == CHOOSE f \in [1..3 -> others] :
                                     {f[j] : j \in 1..3} = others
                      IN  SourceComponent(history[a].tables, pick[k])])
            /\ \A t \in Sources \ {src} :
                 SourceComponent(history[b].tables, t)
                     = SourceComponent(history[a].tables, t)

\* A second call after the payroll table, whose run of 1.00 was in the window,
\* has been taken out of the mapping.
C21_Witness ==
    /\ Len(history) >= 2
    /\ SourceReplaced(history[1].tables, history[2].tables, "fact_payroll_runs")
    /\ ~history[2].tables["fact_payroll_runs"].present
    /\ history[1].burn = 220
    /\ history[2].burn = 120

\* ---- C23
\* x >= y on runway values, float('inf') being the greatest.
RunwayGE(x, y) == x.inf \/ (~y.inf /\ x.n >= y.n)

\* No row of the CapEx schedule has a negative planned_amount.
NoRefund(d) ==
    \A k \in 1..Len(Get(d, "fact_capex_schedule")) :
        Get(d, "fact_capex_schedule")[k].planned_amount >= 0

C24_ShortDelaySameResult ==
    \A a \in 1..Len(history), b \in 1..Len(history) :
        (/\ history[a].version = history[b].version
         /\ history[a].delay = 0 /\ history[b].delay \in 1..27)
            => history[b].result = history[a].result

\* Calls with delays 0, 27 and 28: the first two agree, and the delay of 28
\* days, which moves a payment out of February 2023, changes the result.
C24_Witness ==
    /\ Len(history) = 3
    /\ history[1].version = history[3].version
    /\ history[1].delay = 0 /\ history[2].delay = 27 /\ history[3].delay = 28
    /\ history[1].result = history[2].result
    /\ Len(history[1].result.projection) > 0
    /\ history[3].result # history[1].result

\* ---- C25
\* C25: every call of a sequence of calls on one mapping returns what the
\* first call with that delay returned, the very first call being made on
\* fresh tables; calls entered with the same rows and the same delay return
\* the same result.
C25_CallsDoNotLeak ==
    \A a \in 1..Len(history), b \in 1..Len(history) :
        /\ (history[a].version = history[b].version
            /\ history[a].delay = history[b].delay)
              => history[a].result = history[b].result
        /\ (ParsedTables(history[a].tables) = ParsedTables(history[b].tables)
            /\ history[a].delay = history[b].delay)
              => history[a].result = history[b].result

\* Calls with delays 0, 90 and 0 on one mapping whose dates were strings: the
\* delay of 90 days changed the result, and the third call returns what the
\* first returned.
C25_Witness ==
    /\ Len(history) = 3
    /\ version = 0
    /\ history[1].delay = 0 /\ history[2].delay = 90 /\ history[3].delay = 0
    /\ history[1].tables # history[3].tables
    /\ history[2].result # history[1].result
    /\ history[3].result = history[1].result

\* ---- C22
\* The length of a calendar month, leap years included.
MonthLength(label) ==
    IF label[2] = 2
    THEN (IF label[1] % 4 = 0 /\ (label[1] % 100 # 0 \/ label[1] % 400 = 0)
          THEN 29 ELSE 28)
    ELSE <<31, 0, 31, 30, 31, 30, 31, 31, 30, 31, 30, 31>>[label[2]]

\* The days from the first day of a month to the first day of the month k
\* months later.
RECURSIVE DaysToMonth(_, _)
DaysToMonth(label, k) ==
    IF k = 0 THEN 0
    ELSE DaysToMonth(label, k - 1)
           + MonthLength(MonthAt(<<label[1], label[2], 1>>, k - 1))

\* The label of (first day of the month + d days), 0 <= d <= 365.
ShiftedLabel(label, d) ==
    LET k == CHOOSE j \in 0..12 :
                 DaysToMonth(label, j) <= d /\ d < DaysToMonth(label, j + 1)
    IN  MonthAt(<<label[1], label[2], 1>>, k)

\* C22: with a delay d > 0 every row of a non-empty CapEx table is bucketed
\* under the label of (first day of its planned_month + d days), over real
\* month lengths and leap years; with d = 0 or an empty table every row is
\* bucketed under its planned_month.  A bucket is the sum of its rows.
C22_CapexBuckets ==
    (Projecting /\ delay_capex_days >= 0) =>
        LET capex == Get(dfs, "fact_capex_schedule")
            LabelOf(r) == IF delay_capex_days > 0
                          THEN ShiftedLabel(r.planned_month, delay_capex_days)
                          ELSE r.planned_month
        IN  /\ DOMAIN capex_by_month = {LabelOf(capex[k]) : k \in 1..Len(capex)}
            /\ \A label \in DOMAIN capex_by_month :
                 capex_by_month[label] =
                     Scale * SumSeq([k \in 1..Len(capex) |->
                                       IF LabelOf(capex[k]) = label
                                       THEN capex[k].planned_amount ELSE 0])

\* A payment planned for February 2023 and delayed by 28 days falls in March.
C22_Witness ==
    /\ Projecting /\ delay_capex_days = 28
    /\ Len(Get(dfs, "fact_capex_schedule")) = 1
    /\ Get(dfs, "fact_capex_schedule")[1].planned_month = <<2023, 2>>
    /\ DOMAIN capex_by_month = {<<2023, 3>>}

\* ---- C26
\* C26 as stated: with a non-empty cash table, monthly_burn > 0 and
\* current_cash <= 0 the projection has exactly one entry, with negative
\* cash, and runway_months is 1; runway_months is never 0 when monthly_burn
\* is non-zero.
C26_OneStepWithoutCash ==
    /\ (pc = "done" /\ ~CashEmpty /\ monthly_burn > 0 /\ current_cash <= 0) =>
          /\ Len(result.projection) = 1
          /\ result.runway_months = Fin(1)
          /\ SimTrail(1)[1] < 0
    /\ (pc = "done" /\ ~CashEmpty /\ monthly_burn # 0) =>
          result.runway_months # Fin(0)

\* C26, amended: the same, provided the outflow of the first projected month
\* (monthly_burn plus the CapEx of that month) is positive.
C26_OneStepWithoutCashAndRefund ==
    /\ (/\ pc = "done" /\ ~CashEmpty /\ monthly_burn > 0 /\ current_cash <= 0
        /\ monthly_burn + CapexFor(capex_by_month, MonthAt(latest_date, 1)) > 0) =>
          /\ Len(result.projection) = 1
          /\ result.runway_months = Fin(1)
          /\ SimTrail(1)[1] < 0
    /\ (pc = "done" /\ ~CashEmpty /\ monthly_burn # 0) =>
          result.runway_months # Fin(0)

\* A call without cash, with a burn and a CapEx payment in the first month.
C26_Witness ==
    /\ pc = "done" /\ ~CashEmpty /\ monthly_burn > 0 /\ current_cash <= 0
    /\ CapexFor(capex_by_month, MonthAt(latest_date, 1)) > 0
    /\ Len(result.projection) = 1
    /\ result.runway_months = Fin(1)

\* ---- C30
\* The key of key_metrics under which a returned record was written.
NameKey(rec) ==
    IF rec.name = Absent THEN [kind |-> "default", n |-> 0, s |-> rec.kpi_id]
    ELSE IF rec.name = None THEN NaN
    ELSE rec.name

\* C30: in the returned dict the status of key_metrics[name] is the status of
\* the record of that KPI in kpis, for every record, and the four counters of
\* the summary add up to the number of records.
C30_KeyMetricStatusIsRecordStatus ==
    slide_pc = "done" =>
        LET out == slide_return.value
        IN  /\ \A k \in 1..Len(out.kpis) :
                 \E j \in 1..Len(out.key_metrics) :
                    /\ out.key_metrics[j].name = NameKey(out.kpis[k])
                    /\ out.key_metrics[j].metric.status = out.kpis[k].status
            /\ out.summary.on_target_count + out.summary.above_target_count
                 + out.summary.below_target_count + out.summary.unknown_count
                 = Len(out.kpis)

\* The GL rows of a function: the rows of the departments dim_org gives that
\* function; every row is a row of 'Unknown' when dim_org has no rows.
GlRowsOfFunction(d, f) ==
    LET org == Get(d, "dim_org")
        Depts == {org[k].dept_id : k \in {j \in 1..Len(org) : org[j].function = f}}
        Mine(r) == IF Empty(org) THEN f = "Unknown" ELSE r.dept_id \in Depts
    IN  SelectSeq(Get(d, "fact_gl_actuals_monthly"), Mine)

\* The months of some rows.
MonthsOf(rows) == {rows[k].fiscal_month : k \in 1..Len(rows)}

\* avg is total / n rounded to the cent.
IsAverage(avg, total, n) ==
    /\ n > 0
    /\ 2 * (avg * n - total) <= n
    /\ 2 * (total - avg * n) <= n

\* The functions list is in non-increasing order of total_burn and the total
\* of the summary is the sum of the entries.
BurnOrderedAndTotalled ==
    LET fs == burn_return.functions
    IN  /\ \A k \in 1..Len(fs) - 1 : fs[k].total_burn >= fs[k + 1].total_burn
        /\ burn_return.summary.total_burn_all_functions
             = SumSeq([k \in 1..Len(fs) |-> fs[k].total_burn])
        /\ burn_return.summary.total_functions = Len(fs)

\* Without GL rows the report is empty and its totals are zero.
BurnEmptyWithoutGl ==
    Empty(Get(burn_dfs, "fact_gl_actuals_monthly")) =>
        /\ burn_return.functions = <<>>
        /\ burn_return.summary.total_functions = 0
        /\ burn_return.summary.total_burn_all_functions = 0
        /\ burn_return.summary.average_monthly_burn_all_functions = 0

\* C29: burn_by_function returns its functions in non-increasing order of
\* total_burn, avg_monthly_burn of each entry is its total_burn divided by
\* the number of distinct fiscal months in which the function has GL rows,
\* the total of the summary is the sum of the entries, and without GL rows
\* the list is empty and the totals are zero.
C29_BurnByFunction ==
    burn_pc = "done" =>
        /\ BurnOrderedAndTotalled
        /\ BurnEmptyWithoutGl
        /\ \A k \in 1..Len(burn_return.functions) :
              LET e == burn_return.functions[k]
              IN  IsAverage(e.avg_monthly_burn, e.total_burn,
                            Cardinality(MonthsOf(GlRowsOfFunction(burn_dfs, e.function))))

\* C29, amended: the months that count are those in which the function has
\* GL rows on Opex accounts (on any account when dim_account has no rows).
C29_BurnByFunctionOpexMonths ==
    burn_pc = "done" =>
        /\ BurnOrderedAndTotalled
        /\ BurnEmptyWithoutGl
        /\ \A k \in 1..Len(burn_return.functions) :
              LET e == burn_return.functions[k]
                  rows == BurnOpexRows(GlRowsOfFunction(burn_dfs, e.function),
                                       Get(burn_dfs, "dim_account"))
              IN  IsAverage(e.avg_monthly_burn, e.total_burn,
                            Cardinality(MonthsOf(rows)))

\* Two functions of different totals are reported, one of them with rows in
\* two months and an average that is not its total.
C29_Witness ==
    /\ burn_pc = "done"
    /\ Len(burn_return.functions) = 2
    /\ burn_return.functions[1].total_burn > burn_return.functions[2].total_burn
    /\ \E k \in 1..2 : burn_return.functions[k].month_count = 2

\* The rows a side contributes: the actuals of the quarter, the budget rows
\* of the version and the quarter; a month is of the quarter dim_time gives.
SideRows(rows, quarter) ==
    LET time == Get(var_dfs, "dim_time")
        InIt(r) == \E k \in 1..Len(time) :
                      /\ time[k].fiscal_month = r.fiscal_month
                      /\ time[k].fiscal_quarter = quarter
    IN  SelectSeq(rows, InIt)

\* The sum of amount_base over the rows of a pair.
SideSum(rows, dept, account) ==
    SumWhere(rows, LAMBDA r : r.dept_id = dept /\ r.account_id = account,
             LAMBDA r : r.amount_base)

\* C28: with actuals, budget and dim_time non-empty variance_report returns
\* exactly one row for each (dept_id, account_id) pair of the actuals of the
\* quarter or of the budget of the version and the quarter, with actual and
\* budget the sums of amount_base of either side (0 without rows),
\* variance = actual - budget, and the three counts of the summary add up
\* to total_rows.
C28_VarianceRows ==
    (/\ var_pc = "done"
     /\ ~Empty(Get(var_dfs, "fact_gl_actuals_monthly"))
     /\ ~Empty(Get(var_dfs, "fact_budget_monthly"))
     /\ ~Empty(Get(var_dfs, "dim_time"))) =>
        LET rows == var_return.rows
            actuals == SideRows(Get(var_dfs, "fact_gl_actuals_monthly"),
                                fiscal_quarter)
            ofVersion == SelectSeq(Get(var_dfs, "fact_budget_monthly"),
                                   LAMBDA r : r.version = budget_version)
            budget == SideRows(ofVersion, fiscal_quarter)
            pairs == PairsOf(actuals) \cup PairsOf(budget)
            sum == var_return.summary
        IN  /\ \A p \in pairs :
                  Cardinality({k \in 1..Len(rows) :
                                 <<rows[k].dept_id, rows[k].account_id>> = p}) = 1
            /\ \A k \in 1..Len(rows) :
                  /\ <<rows[k].dept_id, rows[k].account_id>> \in pairs
                  /\ rows[k].actual
                       = SideSum(actuals, rows[k].dept_id, rows[k].account_id)
                  /\ rows[k].budget
                       = SideSum(budget, rows[k].dept_id, rows[k].account_id)
                  /\ rows[k].variance = rows[k].actual - rows[k].budget
            /\ sum.total_rows = Len(rows)
            /\ sum.favorable_count + sum.unfavorable_count + sum.on_budget_count
                 = sum.total_rows

\* A report with a pair only the actuals have and a pair only the budget
\* has.
C28_Witness ==
    /\ var_pc = "done"
    /\ ~Empty(Get(var_dfs, "dim_time"))
    /\ Len(var_return.rows) >= 2
    /\ \E j, k \in 1..Len(var_return.rows) :
          /\ var_return.rows[j].actual > 0 /\ var_return.rows[j].budget = 0
          /\ var_return.rows[k].actual = 0 /\ var_return.rows[k].budget > 0

\* The invocation of the wrapper is over.
WrapOver == wrap_pc \in {"returned", "raised"}

\* What the analytics function of the wrapper gives for the tables of the
\* database and the arguments.
AnalyticsResult ==
    IF wrap_tool = "variance_tool"
    THEN VarianceReport(LoadReportTables(wrap_db), wrap_args.fiscal_quarter,
                        wrap_args.budget_version)
    ELSE IF wrap_tool = "cloud_marketing_tool"
    THEN CloudMarketingBreakdown(LoadReportTables(wrap_db), wrap_args.month)
    ELSE slide_return.value

\* C27: a call of variance_tool, cloud_marketing_tool or slides_tool in which
\* a required argument is absent or empty returns a dict with an 'error' key
\* and does not call the analytics function; a call with every required
\* argument returns the result of the analytics function unchanged.
C27_WrappersGuardAndForward ==
    WrapOver =>
        IF ArgumentMissing(wrap_tool, wrap_args)
        THEN /\ wrap_pc = "returned"
             /\ "error" \in DOMAIN wrap_return.value
             /\ wrap_calls = 0
        ELSE /\ wrap_pc = "returned"
             /\ wrap_calls = 1
             /\ wrap_return.value = AnalyticsResult

====
